---------------------------- MODULE Spec2Model ----------------------------
(***************************************************************************)
(* A state-machine model of the ros kernel (jihoo12/ros).                  *)
(*                                                                         *)
(*   - the physical frame allocator   src/src/memory.rs                    *)
(*   - the kernel heap                src/src/allocator.rs                 *)
(*   - paging                         src/src/memory.rs                    *)
(*   - the xHCI rings and keyboard    src/src/xhci.rs, src/src/syscall.rs  *)
(*   - the scheduler                  src/src/scheduler.rs                 *)
(*   - the syscall dispatcher         src/src/syscall.rs                   *)
(*   - user tasks and their GS bases  src/src/scheduler.rs, syscall.rs     *)
(*   - the stack of a new user task   src/src/scheduler.rs                 *)
(*   - xHCI device enumeration        src/src/xhci.rs                      *)
(*   - the NVMe completion queue      src/src/nvme.rs                      *)
(*   - the PS/2 key ring              src/src/keyboard.rs                  *)
(*                                                                         *)
(* Each subsystem has its own specification (SpecFrame, SpecHeap,          *)
(* SpecPaging, ...); the variables of the other subsystems stay at their   *)
(* idle values.                                                            *)
(***************************************************************************)
EXTENDS Integers, Sequences, FiniteSets, TLC

VARIABLES
    \* ---- frame allocator (memory.rs, struct FrameAllocator) ----
    memory_map,                 \* the UEFI memory map: a sequence of descriptors
    current_descriptor_index,   \* FrameAllocator.current_descriptor_index
    current_page_offset,        \* FrameAllocator.current_page_offset
    frames,                     \* history: the result of every allocate_frame() call
    \* ---- kernel heap (allocator.rs) ----
    mem,                        \* heap memory: 8-byte-aligned address -> 64-bit word
    head,                       \* LinkedListAllocator.head
    heap,                       \* the region handed to init: [start, size]
    live,                       \* history: the live allocations, in allocation order
    stale,                      \* history: pointers that were returned and since freed
    lastOp,                     \* history: the last heap call and its result
    calls,                      \* history: the number of heap calls made
    \* ---- paging (memory.rs, init_paging / map_page) ----
    boot_info,                  \* BootInfo: framebuffer_base, framebuffer_size
    tables,                     \* page-table memory: <<table frame, index>> -> entry
    level,                      \* history: table frame -> its level (4 = PML4 .. 1 = PT)
    pml4_phys,                  \* init_paging's local pml4_phys
    work,                       \* init_paging's position: the addresses still to map
    cr3,                        \* the CR3 register
    paging,                     \* where init_paging is: idle/start/mapping/done/panic
    \* ---- xHCI producer ring (xhci.rs, CommandRing / TransferRing) ----
    ring,                       \* the ring struct: kind, size, enqueue_index, cycle_bit
    trbs,                       \* the ring buffer: slot index -> Trb
    doorbell,                   \* the last value written to the doorbell register
    enq,                        \* history: the number of enqueue calls
    lastWrite,                  \* history: the slot, cycle and Trb of the last enqueue
    \* ---- xHCI event ring, keyboard reports, key buffer (xhci.rs) ----
    er,                         \* EVENT_RING_BUFFER: slot index -> Trb
    erdp,                       \* the ERDP register of interrupter 0
    event_ring_cycle_bit,       \* XhciContext.event_ring_cycle_bit
    hc,                         \* the controller: event enqueue index, producer cycle
    dev,                        \* the keyboard endpoint: dequeue index, cycle state
    report_buf,                 \* KEYBOARD_REPORT_BUFFERS[0]
    prev_report,                \* PREVIOUS_KEYBOARD_REPORTS[0]
    KEYBOARD_BUFFER,            \* the key ring buffer
    KBD_BUF_HEAD,
    KBD_BUF_TAIL,
    LAST_COMPLETION_CODE,
    LAST_SLOT_ID,
    handled,                    \* history: the TRBs handled by the last process_events
    lastReport,                 \* history: the report processed by the last process_events
    runs,                       \* history: per keycode, the run of reports holding it
    fifo,                       \* history: keys stored and not yet read, oldest first
    preload,                    \* history: keys of the start state not yet read
    lastRead,                   \* history: the last read_key and what it should return
    kbdOp,                      \* history: the last step of this subsystem
    counts,                     \* history: reports, other events and reads so far
    \* ---- scheduler (scheduler.rs) ----
    tasks,                      \* Scheduler.tasks; None before init
    current_task_index,         \* Scheduler.current_task_index
    NEXT_TASK_ID,               \* the id the next added task gets
    halted,                     \* TRUE once switch_task entered its hlt loop
    lastSched,                  \* history: the last scheduler call and its effect
    yields,                     \* history: the latest switch_task calls in a row
    \* ---- syscall dispatcher (syscall.rs) ----
    sys,                        \* history: the last syscall, its arguments and result
    syscalls,                   \* history: syscalls so far
    powered,                    \* FALSE once sys_shutdown has reset the machine
    \* ---- user tasks (syscall.rs, scheduler.rs, gdt.rs) ----
    pos,                        \* per task: where it executes or stopped
    cpu,                        \* MSR_GS_BASE and MSR_KERNEL_GS_BASE
    kgs,                        \* the KernelGsBase records, by address
    tss_rsp0,                   \* TSS.rsp0
    spilled,                    \* history: per task, RSP at its latest syscall entry
    lastReturn,                 \* history: the latest syscall return: task and RSP
    \* ---- the stack of a new user task (scheduler.rs) ----
    kstack,                     \* stack memory: address -> 64-bit word
    regs,                       \* the CPU registers context_switch and iretq load
    stage,                      \* how far the new task's first switch has got
    newtask,                    \* add_user_task's arguments and Task.stack_top
    \* ---- xHCI commands and enumeration (xhci.rs) ----
    enum,                       \* the driver: the step it is at, its slot id, its spin count
    hcq,                        \* the controller: requests not yet answered
    posted,                     \* history: the event posted for each step
    ep0,                        \* the EP0 transfer ring of the enumerated slot
    issued,                     \* history: the steps whose wait is over, with their outcome
    indexed,                    \* history: the indices used on the per-slot tables
    \* ---- NVMe completion queue (nvme.rs) ----
    nvq,                        \* NvmeQueue: head, size, phase
    ncq,                        \* the completion queue buffer: index -> NvmeCQEntry
    nctl,                       \* the controller: its tail, its phase tag, entries posted
    ndb,                        \* history: the values written to the head doorbell
    nwait,                      \* nvme_wait_for_completion: where it is, the awaited cid
    \* ---- PS/2 key ring (keyboard.rs) ----
    KEYBUFFER,
    WRITE_IDX,
    READ_IDX,
    popper,                     \* pop_key: where it is, and its locals
    ps2,                        \* the build's order of pop_key's accesses; history counts
    keysStored,                 \* history: the keys push_key stored, in push order
    keysPopped,                 \* history: the keys pop_key returned, in return order
    keysDropped                 \* history: the keys push_key dropped, with the ring state

frameVars == <<memory_map, current_descriptor_index, current_page_offset, frames>>
heapVars  == <<mem, head, heap, live, stale, lastOp, calls>>
pageVars  == <<boot_info, tables, level, pml4_phys, work, cr3, paging>>
ringVars  == <<ring, trbs, doorbell, enq, lastWrite>>
kbdVars   == <<er, erdp, event_ring_cycle_bit, hc, dev, report_buf, prev_report,
               KEYBOARD_BUFFER, KBD_BUF_HEAD, KBD_BUF_TAIL, LAST_COMPLETION_CODE,
               LAST_SLOT_ID, handled, lastReport, runs, fifo, preload, lastRead,
               kbdOp, counts>>
schedVars == <<tasks, current_task_index, NEXT_TASK_ID, halted, lastSched, yields>>
sysVars   == <<sys, syscalls, powered>>
userVars  == <<pos, cpu, kgs, tss_rsp0, spilled, lastReturn>>
stackVars == <<kstack, regs, stage, newtask>>
enumVars  == <<enum, hcq, posted, ep0, issued, indexed>>
nvmeVars  == <<nvq, ncq, nctl, ndb, nwait>>
ps2Vars   == <<KEYBUFFER, WRITE_IDX, READ_IDX, popper, ps2, keysStored, keysPopped,
               keysDropped>>
ioVars    == <<nvmeVars, ps2Vars>>
hwVars    == <<stackVars, enumVars, ioVars>>
vars      == <<memory_map, current_descriptor_index, current_page_offset, frames,
               mem, head, heap, live, stale, lastOp, calls,
               boot_info, tables, level, pml4_phys, work, cr3, paging,
               ring, trbs, doorbell, enq, lastWrite,
               er, erdp, event_ring_cycle_bit, hc, dev, report_buf, prev_report,
               KEYBOARD_BUFFER, KBD_BUF_HEAD, KBD_BUF_TAIL, LAST_COMPLETION_CODE,
               LAST_SLOT_ID, handled, lastReport, runs, fifo, preload, lastRead,
               kbdOp, counts,
               tasks, current_task_index, NEXT_TASK_ID, halted, lastSched, yields,
               sys, syscalls, powered,
               pos, cpu, kgs, tss_rsp0, spilled, lastReturn,
               kstack, regs, stage, newtask,
               enum, hcq, posted, ep0, issued, indexed,
               nvq, ncq, nctl, ndb, nwait,
               KEYBUFFER, WRITE_IDX, READ_IDX, popper, ps2, keysStored, keysPopped,
               keysDropped>>

(***************************************************************************)
(* Bounds of the model.                                                    *)
(***************************************************************************)
MaxDescriptors == 3     \* descriptors in a memory map
MaxFrameCalls  == 6     \* allocate_frame() calls followed
HeapWords      == 40    \* size of the small heap region, in 8-byte words
MaxLive        == 3     \* allocations live at the same time
MaxCalls       == 5     \* heap calls followed

(***************************************************************************)
(* Program constants.                                                      *)
(***************************************************************************)
PAGE_SIZE               == 4096     \* memory.rs:5
EFI_CONVENTIONAL_MEMORY == 7        \* uefi.rs:112
EFI_LOADER_DATA         == 2        \* uefi.rs:107
HEAP_BLOCK_SIZE         == 32       \* allocator.rs:9, size_of::<HeapBlock>() on x86_64
WORD                    == 8        \* size_of::<usize>() / align_of::<usize>() on x86_64
NULL                    == 0        \* ptr::null_mut()

None == -1                          \* Option::None of allocate_frame

Min(a, b) == IF a < b THEN a ELSE b

(***************************************************************************)
(*                          FRAME ALLOCATOR                                *)
(***************************************************************************)

\* The inputs: descriptors of a UEFI memory map.  PhysicalStart is page
\* aligned, as UEFI guarantees; the regions of a map do not overlap; the
\* order of the descriptors in the map is whatever the firmware produced.
StartPages == {0, 1, 2, 4}
PageCounts == {0, 1, 2}
DescTypes  == {EFI_CONVENTIONAL_MEMORY, EFI_LOADER_DATA}

Descriptors ==
    [Type : DescTypes,
     PhysicalStart : {s * PAGE_SIZE : s \in StartPages},
     NumberOfPages : PageCounts]

DescEnd(d) == d.PhysicalStart + d.NumberOfPages * PAGE_SIZE

NoOverlap(map) ==
    \A i, j \in 1..Len(map) :
        i < j => \/ DescEnd(map[i]) <= map[j].PhysicalStart
                 \/ DescEnd(map[j]) <= map[i].PhysicalStart

MemoryMaps ==
    {m \in UNION {[1..n -> Descriptors] : n \in 0..MaxDescriptors} : NoOverlap(m)}

\* memory.rs:48  `descriptor.Type == EFI_CONVENTIONAL_MEMORY`
IsAllocatableAny(d) == TRUE
IsAllocatable(d) == d.Type = EFI_CONVENTIONAL_MEMORY

\* memory.rs:49  `self.current_page_offset < descriptor.NumberOfPages`
HasPageLeft(d, off) == off < d.NumberOfPages

\* memory.rs:50-51  `descriptor.PhysicalStart + (self.current_page_offset * PAGE_SIZE)`
FrameAddressNoOffset(d, off) == d.PhysicalStart
FrameAddress(d, off) == d.PhysicalStart + off * PAGE_SIZE

\* memory.rs:38-63  FrameAllocator::allocate_frame: the while loop, from the
\* cursor (idx, off); the result is the returned value and the cursor left.
\* The cursor's offset is incremented before the `frame_address > 0` test,
\* and a frame address of 0 falls through to the next descriptor.
RECURSIVE allocate_frame(_, _, _)
allocate_frame(map, idx, off) ==
    IF idx >= Len(map)
    THEN [ret |-> None, idx |-> idx, off |-> off]
    ELSE LET d == map[idx + 1] IN
         IF IsAllocatable(d) /\ HasPageLeft(d, off) /\ FrameAddress(d, off) > 0
         THEN [ret |-> FrameAddress(d, off), idx |-> idx, off |-> off + 1]
         ELSE allocate_frame(map, idx + 1, 0)

\* memory.rs:27-36  FrameAllocator::new
FrameInit ==
    /\ memory_map \in MemoryMaps
    /\ current_descriptor_index = 0
    /\ current_page_offset = 0
    /\ frames = <<>>

FrameIdle ==
    /\ memory_map = <<>>
    /\ current_descriptor_index = 0
    /\ current_page_offset = 0
    /\ frames = <<>>

\* One call of allocate_frame().
AllocateFrame ==
    /\ Len(frames) < MaxFrameCalls
    /\ LET r == allocate_frame(memory_map, current_descriptor_index, current_page_offset) IN
        /\ current_descriptor_index' = r.idx
        /\ current_page_offset' = r.off
        /\ frames' = Append(frames, r.ret)
    /\ UNCHANGED memory_map
    /\ UNCHANGED <<heapVars, pageVars, ringVars, kbdVars, schedVars, sysVars, userVars, hwVars>>


(***************************************************************************)
(*                             KERNEL HEAP                                 *)
(*                                                                         *)
(* Heap memory is a partial map from 8-byte-aligned addresses to 64-bit    *)
(* words; an address outside its domain was never written (its content is  *)
(* unknown).  A HeapBlock header (allocator.rs:11-17, repr(C)) occupies    *)
(* four words: size at +0, next at +8, prev at +16 and the one-byte `free` *)
(* flag at +24.  The block list is whatever the next pointers say it is.   *)
(***************************************************************************)
OFF_SIZE == 0        \* offset of HeapBlock.size
OFF_NEXT == 8        \* offset of HeapBlock.next
OFF_PREV == 16       \* offset of HeapBlock.prev
OFF_FREE == 24       \* offset of HeapBlock.free

Written(m, a) == a \in DOMAIN m

\* A 64-bit store: the word at a becomes v, every other word stays
Store64(m, a, v) == (a :> v) @@ m

\* A one-byte store to the lowest byte of the word at a (little endian): the
\* other seven bytes keep what they held (0 stands for never-written bytes).
Store8(m, a, b) ==
    Store64(m, a, ((IF Written(m, a) THEN m[a] ELSE 0) \div 256) * 256 + b)

Load8(m, a) == m[a] % 256

BlockSize(m, b) == m[b + OFF_SIZE]
BlockNext(m, b) == m[b + OFF_NEXT]
BlockPrev(m, b) == m[b + OFF_PREV]
\* `(*block).free`: a bool is the byte 0 or 1
BlockFree(m, b) == Load8(m, b + OFF_FREE) = 1

\* allocator.rs:32-42  LinkedListAllocator::init
init(start, size) ==
    LET m1 == Store64(<<>>, start + OFF_SIZE, size - HEAP_BLOCK_SIZE)
        m2 == Store64(m1, start + OFF_NEXT, NULL)
        m3 == Store64(m2, start + OFF_PREV, NULL)
        m4 == Store8(m3, start + OFF_FREE, 1)
    IN  [mem |-> m4, head |-> start]

\* allocator.rs:46-47  `size = (size + align_mask) & !align_mask`
RoundUp(size) == ((size + (WORD - 1)) \div WORD) * WORD

\* allocator.rs:53  `(*current).free && (*current).size >= size`
FitsStrictly(m, b, size) == BlockFree(m, b) /\ BlockSize(m, b) > size
Fits(m, b, size) == BlockFree(m, b) /\ BlockSize(m, b) >= size

\* allocator.rs:49-51,76  the first-fit walk from `current`; NULL when the
\* list ends without a fit
RECURSIVE FirstFit(_, _, _)
FirstFit(m, current, size) ==
    IF current = NULL THEN NULL
    ELSE IF Fits(m, current, size) THEN current
    ELSE FirstFit(m, BlockNext(m, current), size)

\* allocator.rs:55  `(*current).size >= size + HEAP_BLOCK_SIZE + 16`
CanSplitTight(m, b, size) == BlockSize(m, b) >= size + HEAP_BLOCK_SIZE
CanSplit(m, b, size) == BlockSize(m, b) >= size + HEAP_BLOCK_SIZE + 16

\* allocator.rs:56-69  the split of `current`, write by write
SplitKeepSize(m, current, size) ==
    LET next == current + HEAP_BLOCK_SIZE + size
        m1 == Store64(m, next + OFF_SIZE, BlockSize(m, current) - size - HEAP_BLOCK_SIZE)
        m2 == Store64(m1, next + OFF_NEXT, BlockNext(m1, current))
        m3 == Store64(m2, next + OFF_PREV, current)
        m4 == Store8(m3, next + OFF_FREE, 1)
        m5 == IF BlockNext(m4, next) # NULL
              THEN Store64(m4, BlockNext(m4, next) + OFF_PREV, next)
              ELSE m4
    IN  Store64(m5, current + OFF_NEXT, next)
Split(m, current, size) ==
    LET next == current + HEAP_BLOCK_SIZE + size
        m1 == Store64(m, next + OFF_SIZE, BlockSize(m, current) - size - HEAP_BLOCK_SIZE)
        m2 == Store64(m1, next + OFF_NEXT, BlockNext(m1, current))
        m3 == Store64(m2, next + OFF_PREV, current)
        m4 == Store8(m3, next + OFF_FREE, 1)
        m5 == IF BlockNext(m4, next) # NULL
              THEN Store64(m4, BlockNext(m4, next) + OFF_PREV, next)
              ELSE m4
        m6 == Store64(m5, current + OFF_SIZE, size)
    IN  Store64(m6, current + OFF_NEXT, next)

\* allocator.rs:44-80  LinkedListAllocator::alloc_raw; ret is the payload
\* address, NULL when no block fits (memory is then untouched)
alloc_raw(m, hd, size0) ==
    LET size    == RoundUp(size0)
        current == FirstFit(m, hd, size)
    IN  IF current = NULL
        THEN [mem |-> m, ret |-> NULL]
        ELSE LET m1 == IF CanSplit(m, current, size) THEN Split(m, current, size) ELSE m
             IN  [mem |-> Store8(m1, current + OFF_FREE, 0),
                  ret |-> current + HEAP_BLOCK_SIZE]

\* allocator.rs:95-103  coalesce `block` with its successor
CoalesceNextNever(m, block) == m
CoalesceNext(m, block) ==
    LET next == BlockNext(m, block) IN
    IF next # NULL /\ BlockFree(m, next)
    THEN LET m1 == Store64(m, block + OFF_SIZE,
                           BlockSize(m, block) + BlockSize(m, next) + HEAP_BLOCK_SIZE)
             m2 == Store64(m1, block + OFF_NEXT, BlockNext(m1, next))
         IN  IF BlockNext(m2, block) # NULL
             THEN Store64(m2, BlockNext(m2, block) + OFF_PREV, block)
             ELSE m2
    ELSE m

\* allocator.rs:105-113  coalesce `block` into its predecessor
CoalescePrevNever(m, block) == m
CoalescePrev(m, block) ==
    LET prev == BlockPrev(m, block) IN
    IF prev # NULL /\ BlockFree(m, prev)
    THEN LET m1 == Store64(m, prev + OFF_SIZE,
                           BlockSize(m, prev) + BlockSize(m, block) + HEAP_BLOCK_SIZE)
             m2 == Store64(m1, prev + OFF_NEXT, BlockNext(m1, block))
         IN  IF BlockNext(m2, block) # NULL
             THEN Store64(m2, BlockNext(m2, block) + OFF_PREV, prev)
             ELSE m2
    ELSE m

\* allocator.rs:89-92  `if (*block).free { return; }`
IsDoubleFreeNever(m, block) == FALSE
IsDoubleFree(m, block) == BlockFree(m, block)

\* allocator.rs:82-116  LinkedListAllocator::free_raw
free_raw(m, ptr) ==
    IF ptr = NULL THEN m
    ELSE LET block == ptr - HEAP_BLOCK_SIZE IN
         IF IsDoubleFree(m, block) THEN m
         ELSE CoalescePrev(CoalesceNext(Store8(m, block + OFF_FREE, 1), block), block)

\* allocator.rs:283-287  the aligned payload address for the raw payload
\* address addr: the smallest multiple of align that is >= addr + WORD
AlignedAddr(addr, align) ==
    LET start_candidate == addr + WORD
        remainder       == start_candidate % align
        padding         == IF remainder = 0 THEN 0 ELSE align - remainder
    IN  start_candidate + padding

\* allocator.rs:263-264  `extra_alloc = align + offset_header_size`
ExtraAllocNoAlign(align) == WORD
ExtraAlloc(align) == align + WORD

\* allocator.rs:245-297  KernelAllocator::alloc in kernel mode (CPL 0)
KernelAlloc(m, hd, size, align) ==
    LET r == alloc_raw(m, hd, size + ExtraAlloc(align)) IN
    IF r.ret = NULL
    THEN [mem |-> r.mem, ret |-> NULL]
    ELSE LET block_addr   == r.ret - HEAP_BLOCK_SIZE
             aligned_addr == AlignedAddr(r.ret, align)
         IN  [mem |-> Store64(r.mem, aligned_addr - WORD, block_addr),
              ret |-> aligned_addr]

\* allocator.rs:310-312  the block address read back from the word before ptr
BackPointer(m, ptr) == m[ptr - WORD]

\* allocator.rs:299-319  KernelAllocator::dealloc in kernel mode
KernelDealloc(m, ptr) ==
    IF ptr = NULL THEN m
    ELSE free_raw(m, BackPointer(m, ptr) + HEAP_BLOCK_SIZE)

\* allocator.rs:362  ptr::copy_nonoverlapping(ptr, new_ptr, copy_size): whole
\* words are copied; a never-written source word leaves the destination
\* word unknown, and so does a trailing part of a word
CopyBytes(m, src, dst, len) ==
    LET whole   == {dst + WORD * k : k \in 0..(len \div WORD) - 1}
        part    == IF len % WORD = 0 THEN {} ELSE {dst + WORD * (len \div WORD)}
        known   == {x \in whole : Written(m, src + (x - dst))}
    IN  [x \in (DOMAIN m \ (whole \cup part)) \cup known |->
            IF x \in known THEN m[src + (x - dst)] ELSE m[x]]

\* allocator.rs:343-354  old_capacity, from the recovered block
OldCapacity(m, ptr) ==
    LET block_addr       == BackPointer(m, ptr)
        raw_payload_size == BlockSize(m, block_addr)
        raw_payload_end  == block_addr + HEAP_BLOCK_SIZE + raw_payload_size
    IN  raw_payload_end - ptr

\* allocator.rs:321-367  KernelAllocator::realloc in kernel mode
KernelReallocFreesOnFailure(m, hd, ptr, new_size, align) ==
    IF ptr = NULL THEN KernelAlloc(m, hd, new_size, align)
    ELSE LET r == KernelAlloc(m, hd, new_size, align) IN
         IF r.ret = NULL
         THEN [mem |-> KernelDealloc(r.mem, ptr), ret |-> NULL]
         ELSE LET copy_size == Min(new_size, OldCapacity(r.mem, ptr))
                  m1 == CopyBytes(r.mem, ptr, r.ret, copy_size)
              IN  [mem |-> KernelDealloc(m1, ptr), ret |-> r.ret]
KernelRealloc(m, hd, ptr, new_size, align) ==
    IF ptr = NULL THEN KernelAlloc(m, hd, new_size, align)
    ELSE LET r == KernelAlloc(m, hd, new_size, align) IN
         IF r.ret = NULL
         THEN [mem |-> r.mem, ret |-> NULL]
         ELSE LET copy_size == Min(new_size, OldCapacity(r.mem, ptr))
                  m1 == CopyBytes(r.mem, ptr, r.ret, copy_size)
              IN  [mem |-> KernelDealloc(m1, ptr), ret |-> r.ret]

(***************************************************************************)
(* The callers.  An allocation request is a Layout (size, power-of-two     *)
(* align); a live allocation may be written by its owner, freed or         *)
(* reallocated; a pointer that was already freed may be freed again (a     *)
(* double free) as long as the header it leads to still has its free flag  *)
(* set.  Freeing a dangling pointer whose memory was recycled so that it   *)
(* no longer leads to such a header is outside every contract of the       *)
(* allocator and is not a call of the model.                               *)
(***************************************************************************)
Layouts    == {<<8, 8>>, <<12, 1>>, <<64, 16>>, <<128, 64>>}     \* <<size, align>>
DataValues == {165}

HeapConfigs == { [start |-> 2097152, size |-> WORD * HeapWords] }

NoOp == [op |-> "init", n |-> 0, a |-> 0, ptr |-> NULL, ret |-> NULL,
         clean |-> FALSE, later |-> FALSE, fresh |-> FALSE, dbl |-> FALSE,
         by |-> "", after |-> 0]

LivePtrs == {live[i].p : i \in 1..Len(live)}

LiveIndex(p) == CHOOSE i \in 1..Len(live) : live[i].p = p

RemoveAt(s, i) == [k \in 1..Len(s) - 1 |-> IF k < i THEN s[k] ELSE s[k + 1]]

\* The history after the allocation at index i was freed: it is dropped;
\* every other allocation has seen a free since it was made, and every
\* earlier one has seen the free of a later allocation.
AfterFree(i) ==
    LET marked == [k \in 1..Len(live) |->
                     [live[k] EXCEPT !.clean = FALSE,
                                     !.later = IF k < i THEN FALSE ELSE @]]
    IN  RemoveAt(marked, i)

\* The record of an allocation: its pointer and layout, the call that made
\* it, whether no free happened since (clean), and whether no allocation
\* made after it was freed (later).
NewAllocation(p, n, a, by) ==
    [p |-> p, n |-> n, a |-> a, by |-> by, clean |-> (by = "alloc"), later |-> TRUE]

HeapInit ==
    /\ heap \in HeapConfigs
    /\ mem = init(heap.start, heap.size).mem
    /\ head = init(heap.start, heap.size).head
    /\ live = <<>>
    /\ stale = {}
    /\ lastOp = NoOp
    /\ calls = 0

HeapIdle ==
    /\ heap = [start |-> 0, size |-> 0]
    /\ mem = <<>>
    /\ head = NULL
    /\ live = <<>>
    /\ stale = {}
    /\ lastOp = NoOp
    /\ calls = 0

\* One more heap call; the frame allocator is not involved.
Called ==
    /\ calls < MaxCalls
    /\ calls' = calls + 1
    /\ UNCHANGED <<frameVars, pageVars, ringVars, kbdVars, schedVars, sysVars, userVars, hwVars>>

\* alloc(layout) from kernel mode
Alloc(n, a) ==
    /\ Called
    /\ Len(live) < MaxLive
    /\ LET r == KernelAlloc(mem, head, n, a) IN
        /\ mem' = r.mem
        /\ live' = IF r.ret = NULL THEN live ELSE Append(live, NewAllocation(r.ret, n, a, "alloc"))
        /\ stale' = stale \ {r.ret}
        /\ lastOp' = [NoOp EXCEPT !.op = "alloc", !.n = n, !.a = a, !.ret = r.ret]
    /\ UNCHANGED <<head, heap>>

\* dealloc(ptr) of a live allocation
Dealloc(p) ==
    /\ Called
    /\ p \in LivePtrs
    /\ LET i == LiveIndex(p) IN
        /\ mem' = KernelDealloc(mem, p)
        /\ live' = AfterFree(i)
        /\ stale' = stale \cup {p}
        /\ lastOp' = [op |-> "dealloc", n |-> live[i].n, a |-> live[i].a, ptr |-> p,
                      ret |-> NULL, clean |-> live[i].clean, later |-> live[i].later,
                      fresh |-> (lastOp.op = "alloc" /\ lastOp.ret = p),
                      dbl |-> FALSE, by |-> live[i].by, after |-> Len(live) - i]
    /\ UNCHANGED <<head, heap>>

\* The double free the allocator answers: the word before ptr still reads
\* as the address of a header whose free flag is set.
LeadsToFreeHeader(m, p) ==
    /\ Written(m, p - WORD)
    /\ Written(m, BackPointer(m, p) + OFF_FREE)
    /\ BlockFree(m, BackPointer(m, p))

\* dealloc(ptr) of a pointer that was freed before
DoubleFree(p) ==
    /\ Called
    /\ p \in stale
    /\ LeadsToFreeHeader(mem, p)
    /\ mem' = KernelDealloc(mem, p)
    /\ lastOp' = [NoOp EXCEPT !.op = "dealloc", !.ptr = p, !.dbl = TRUE]
    /\ UNCHANGED <<head, heap, live, stale>>

\* realloc(ptr, layout, new_size) of a live allocation; the old block is
\* freed after the new one was allocated, so the new allocation has seen a
\* free since it was made
Realloc(p, n, a) ==
    /\ Called
    /\ p \in LivePtrs
    /\ LET i == LiveIndex(p)
           r == KernelRealloc(mem, head, p, n, a)
       IN
        /\ mem' = r.mem
        /\ live' = IF r.ret = NULL THEN live
                   ELSE Append(AfterFree(i), NewAllocation(r.ret, n, a, "realloc"))
        /\ stale' = IF r.ret = NULL THEN stale ELSE (stale \cup {p}) \ {r.ret}
        /\ lastOp' = [NoOp EXCEPT !.op = "realloc", !.n = n, !.a = a, !.ptr = p,
                                  !.ret = r.ret]
    /\ UNCHANGED <<head, heap>>

\* The whole words of the n bytes at p
PayloadWords(p, n) == {p + WORD * k : k \in 0..(n \div WORD) - 1}

Fill(m, p, n, v) ==
    [x \in DOMAIN m \cup PayloadWords(p, n) |-> IF x \in PayloadWords(p, n) THEN v ELSE m[x]]

\* The owner of a live allocation fills the whole words of its n bytes.
Write(p, v) ==
    /\ Called
    /\ p \in LivePtrs
    /\ LET i == LiveIndex(p) IN
        /\ live[i].n >= WORD
        /\ mem' = Fill(mem, p, live[i].n, v)
    /\ lastOp' = [NoOp EXCEPT !.op = "write", !.ptr = p]
    /\ UNCHANGED <<head, heap, live, stale>>

HeapNext ==
    \/ \E l \in Layouts : Alloc(l[1], l[2])
    \/ \E p \in LivePtrs : Dealloc(p)
    \/ \E p \in stale : DoubleFree(p)
    \/ \E p \in LivePtrs, l \in Layouts : Realloc(p, l[1], l[2])
    \/ \E p \in LivePtrs, v \in DataValues : Write(p, v)

FrameNext == AllocateFrame

(***************************************************************************)
(*                               PAGING                                    *)
(***************************************************************************)
MaxPagingDescriptors == 2   \* descriptors in the memory map handed to init_paging

PAGE_PRESENT  == 1          \* memory.rs:7   1 << 0
PAGE_WRITABLE == 2          \* memory.rs:8   1 << 1
PAGE_USER     == 4          \* memory.rs:9   1 << 2
TABLE_ENTRIES == 512        \* memory.rs:67  PageTable.entries
LOW12         == 4096       \* memory.rs:103 the mask !0xFFF clears 12 bits

EFI_LOADER_CODE                 == 1    \* uefi.rs:106
EFI_BOOT_SERVICES_CODE          == 3    \* uefi.rs:108
EFI_BOOT_SERVICES_DATA          == 4    \* uefi.rs:109
EFI_RUNTIME_SERVICES_CODE       == 5    \* uefi.rs:110
EFI_RUNTIME_SERVICES_DATA       == 6    \* uefi.rs:111
EFI_UNUSABLE_MEMORY             == 8    \* uefi.rs:113
EFI_ACPI_RECLAIM_MEMORY         == 9    \* uefi.rs:114
EFI_ACPI_MEMORY_NVS             == 10   \* uefi.rs:115
EFI_MEMORY_MAPPED_IO            == 11   \* uefi.rs:116
EFI_MEMORY_MAPPED_IO_PORT_SPACE == 12   \* uefi.rs:117

\* Bitwise | and & on non-negative integers.
RECURSIVE BitOr(_, _)
BitOr(a, b) ==
    IF a = 0 THEN b
    ELSE IF b = 0 THEN a
    ELSE (IF a % 2 = 1 \/ b % 2 = 1 THEN 1 ELSE 0) + 2 * BitOr(a \div 2, b \div 2)

RECURSIVE BitAnd(_, _)
BitAnd(a, b) ==
    IF a = 0 \/ b = 0 THEN 0
    ELSE (IF a % 2 = 1 /\ b % 2 = 1 THEN 1 ELSE 0) + 2 * BitAnd(a \div 2, b \div 2)

\* memory.rs:103  entry & !0xFFF
TableAddress(entry) == entry - (entry % LOW12)

\* memory.rs:91-94  the four index fields of a linear address
pml4_idx(virt_addr) == ((virt_addr \div 2^30) \div 2^9) % TABLE_ENTRIES
pdp_idx(virt_addr)  == (virt_addr \div 2^30) % TABLE_ENTRIES
pd_idx(virt_addr)   == (virt_addr \div 2^21) % TABLE_ENTRIES
pt_idx(virt_addr)   == (virt_addr \div 2^12) % TABLE_ENTRIES

\* memory.rs:79-81  get_table_mut(frame).entries[i]; a table is only read
\* after table.zero(), so an entry never written since then reads 0.
Entry(t, frame, i) == IF <<frame, i>> \in DOMAIN t THEN t[<<frame, i>>] ELSE 0

\* memory.rs:71-75  PageTable::zero on the table at `frame`
Zero(t, frame) == [k \in {x \in DOMAIN t : x[1] # frame} |-> t[k]]

IsPresent(entry) == BitAnd(entry, PAGE_PRESENT) # 0

\* memory.rs:101  the flags of a parent entry
ParentFlags == BitOr(BitOr(PAGE_PRESENT, PAGE_WRITABLE), PAGE_USER)

\* The state map_page works on: the table memory, the frame allocator, and
\* `next`, the table the walk has reached; ok = FALSE after an expect()
\* panicked on an exhausted allocator.
WalkState(t, lv, idx, off, fr, table) ==
    [tables |-> t, level |-> lv, idx |-> idx, off |-> off, frames |-> fr,
     next |-> table, ok |-> TRUE]

\* memory.rs:97-104 (PDPT), 107-114 (PD), 117-124 (PT): the entry i of the
\* table st.next leads to the next table, allocated and zeroed if absent.
AlwaysAllocate(entry) == FALSE
ReusesTable(entry) == IsPresent(entry)
NextTable(map, st, i, lvl) ==
    IF ~st.ok THEN st
    ELSE IF ReusesTable(Entry(st.tables, st.next, i))
    THEN [st EXCEPT !.next = TableAddress(Entry(st.tables, st.next, i))]
    ELSE LET r == allocate_frame(map, st.idx, st.off) IN
         IF r.ret = None
         THEN [st EXCEPT !.ok = FALSE, !.idx = r.idx, !.off = r.off,
                         !.frames = Append(st.frames, None)]
         ELSE [st EXCEPT !.tables = (<<st.next, i>> :> BitOr(r.ret, ParentFlags))
                                        @@ Zero(st.tables, r.ret),
                         !.level = (r.ret :> lvl) @@ st.level,
                         !.idx = r.idx, !.off = r.off,
                         !.frames = Append(st.frames, r.ret),
                         !.next = r.ret]

\* memory.rs:127  the leaf entry
LeafEntryNoPresent(phys_addr, flags) == BitOr(phys_addr, flags)
LeafEntry(phys_addr, flags) == BitOr(BitOr(phys_addr, flags), PAGE_PRESENT)

\* memory.rs:84-128  map_page(pml4, virt_addr, phys_addr, flags, allocator);
\* st.next is the PML4 on entry.
map_page(map, st, virt_addr, phys_addr, flags) ==
    LET pdpt == NextTable(map, st, pml4_idx(virt_addr), 3)
        pd   == NextTable(map, pdpt, pdp_idx(virt_addr), 2)
        pt   == NextTable(map, pd, pd_idx(virt_addr), 1)
    IN IF ~pt.ok THEN pt
       ELSE [pt EXCEPT !.tables = (<<pt.next, pt_idx(virt_addr)>>
                                      :> LeafEntry(phys_addr, flags)) @@ pt.tables]

\* memory.rs:145-156  the identity-map set
IdentityMapTypes ==
    {EFI_CONVENTIONAL_MEMORY, EFI_LOADER_CODE, EFI_LOADER_DATA,
     EFI_BOOT_SERVICES_CODE, EFI_BOOT_SERVICES_DATA,
     EFI_RUNTIME_SERVICES_CODE, EFI_RUNTIME_SERVICES_DATA,
     EFI_ACPI_RECLAIM_MEMORY, EFI_ACPI_MEMORY_NVS,
     EFI_MEMORY_MAPPED_IO, EFI_MEMORY_MAPPED_IO_PORT_SPACE}

\* memory.rs:159, 170  (start..end).step_by(PAGE_SIZE)
RECURSIVE StepBy(_, _)
StepBy(start, end) ==
    IF start >= end THEN <<>> ELSE <<start>> \o StepBy(start + PAGE_SIZE, end)

\* memory.rs:139-165  the addresses the descriptor loop maps, in order
RECURSIVE DescriptorPages(_, _)
DescriptorPages(map, i) ==
    IF i > Len(map) THEN <<>>
    ELSE (IF map[i].Type \in IdentityMapTypes
          THEN StepBy(map[i].PhysicalStart, DescEnd(map[i]))
          ELSE <<>>) \o DescriptorPages(map, i + 1)

\* memory.rs:168-172  the addresses the framebuffer loop maps
FramebufferPages(bi) ==
    StepBy(bi.framebuffer_base, bi.framebuffer_base + bi.framebuffer_size)

\* The inputs: a memory map and a framebuffer.  The starts are page aligned
\* and chosen below 2^31 so that the regions fall into different page
\* tables, page directories and PDPT entries (1 MiB, 2 MiB - 4 KiB, 1 GiB,
\* 1 GiB + 2 MiB); a framebuffer is a device aperture, page aligned, of any
\* size.
PagingStarts == {1048576, 2093056, 1073741824, 1075838976}
PagingCounts == {1, 2, 8}
PagingTypes  ==
    {EFI_CONVENTIONAL_MEMORY, EFI_LOADER_DATA, EFI_MEMORY_MAPPED_IO, EFI_UNUSABLE_MEMORY}

PagingDescriptors ==
    [Type : PagingTypes, PhysicalStart : PagingStarts, NumberOfPages : PagingCounts]

PagingMaps ==
    {m \in UNION {[1..n -> PagingDescriptors] : n \in 0..MaxPagingDescriptors} :
        NoOverlap(m)}

BootInfos ==
    {[framebuffer_base |-> 2097152000, framebuffer_size |-> 6144],
     [framebuffer_base |-> 1073741824, framebuffer_size |-> 4096]}

PagingIdle ==
    /\ boot_info = [framebuffer_base |-> 0, framebuffer_size |-> 0]
    /\ tables = <<>>
    /\ level = <<>>
    /\ pml4_phys = None
    /\ work = <<>>
    /\ cr3 = 0
    /\ paging = "idle"

\* main.rs:44-59  kernel_main builds the frame allocator and calls init_paging
PagingInit ==
    /\ memory_map \in PagingMaps
    /\ current_descriptor_index = 0
    /\ current_page_offset = 0
    /\ frames = <<>>
    /\ boot_info \in BootInfos
    /\ tables = <<>>
    /\ level = <<>>
    /\ pml4_phys = None
    /\ work = <<>>
    /\ cr3 = 0
    /\ paging = "start"

\* memory.rs:131-134  allocate and zero the PML4
AllocatePML4 ==
    /\ paging = "start"
    /\ LET r == allocate_frame(memory_map, current_descriptor_index, current_page_offset) IN
        /\ current_descriptor_index' = r.idx
        /\ current_page_offset' = r.off
        /\ frames' = Append(frames, r.ret)
        /\ IF r.ret = None
           THEN /\ paging' = "panic"
                /\ UNCHANGED <<tables, level, pml4_phys, work>>
           ELSE /\ paging' = "mapping"
                /\ pml4_phys' = r.ret
                /\ tables' = Zero(tables, r.ret)
                /\ level' = (r.ret :> 4) @@ level
                /\ work' = DescriptorPages(memory_map, 1) \o FramebufferPages(boot_info)
    /\ UNCHANGED <<memory_map, boot_info, cr3, heapVars, ringVars, kbdVars, schedVars, sysVars, userVars, hwVars>>

\* memory.rs:160, 171  one map_page(pml4, addr, addr, W|U, allocator) of the loops
MapNextPage ==
    /\ paging = "mapping"
    /\ work # <<>>
    /\ LET addr == Head(work)
           st == map_page(memory_map,
                          WalkState(tables, level, current_descriptor_index,
                                    current_page_offset, frames, pml4_phys),
                          addr, addr, BitOr(PAGE_WRITABLE, PAGE_USER))
       IN /\ tables' = st.tables
          /\ level' = st.level
          /\ current_descriptor_index' = st.idx
          /\ current_page_offset' = st.off
          /\ frames' = st.frames
          /\ IF st.ok
             THEN work' = Tail(work) /\ paging' = "mapping"
             ELSE work' = work /\ paging' = "panic"
    /\ UNCHANGED <<memory_map, boot_info, pml4_phys, cr3, heapVars, ringVars, kbdVars, schedVars, sysVars, userVars, hwVars>>

\* memory.rs:174-177  load CR3 and return
LoadCR3 ==
    /\ paging = "mapping"
    /\ work = <<>>
    /\ cr3' = pml4_phys
    /\ paging' = "done"
    /\ UNCHANGED <<memory_map, current_descriptor_index, current_page_offset, frames,
                   boot_info, tables, level, pml4_phys, work, heapVars, ringVars, kbdVars, schedVars, sysVars, userVars, hwVars>>

PagingNext ==
    \/ AllocatePML4
    \/ MapNextPage
    \/ LoadCR3

(***************************************************************************)
(*                     xHCI PRODUCER RINGS (xhci.rs)                       *)
(***************************************************************************)
MaxRingSlots == 5       \* slots of a ring buffer, the Link slot included
MaxEnqueues  == 9       \* enqueue calls followed

TRB_SIZE         == 16  \* xhci.rs:80   size_of::<Trb>() (repr(C, align(16)))
TRB_LINK         == 6   \* xhci.rs:76
TRB_NORMAL       == 1   \* xhci.rs:71
TRB_NOOP_COMMAND == 23  \* xhci.rs:67
TRB_TYPE_SHIFT   == 1024    \* xhci.rs:88  the type field starts at bit 10
TRB_TYPE_MASK    == 64      \* xhci.rs:88  & 0x3F

\* xhci.rs:80-84  struct Trb
Trb(param, status, control) == [param |-> param, status |-> status, control |-> control]
TrbDefault == Trb(0, 0, 0)

\* xhci.rs:87-89  Trb::trb_type
trb_type(trb) == (trb.control \div TRB_TYPE_SHIFT) % TRB_TYPE_MASK

\* xhci.rs:91-93  Trb::cycle_bit
cycle_bit(trb) == (trb.control % 2) # 0

BoolBit(b) == IF b THEN 1 ELSE 0

\* xhci.rs:246-247  (control & !1) | (if cycle { 1 } else { 0 })
SetCycleKeep(control, cycle) == control
SetCycle(control, cycle) == (control - (control % 2)) + BoolBit(cycle)

\* xhci.rs:233-236  the Link TRB: type Link, TC = 1, cycle bit clear,
\* pointing back to the ring base (kept as slot 0)
LinkTrb == Trb(0, 0, BitOr(TRB_LINK * TRB_TYPE_SHIFT, 2))

\* xhci.rs:225-243 CommandRing::new, 146-164 TransferRing::new: the buffer is
\* zeroed, the Link TRB is written to the last slot; `size` is the number of
\* usable slots.
RingNew(kind, size_bytes) ==
    LET size == size_bytes \div TRB_SIZE IN
    [ring |-> [kind |-> kind, size |-> size - 1, enqueue_index |-> 0, cycle_bit |-> TRUE],
     trbs |-> [i \in 0..(size - 1) |-> IF i = size - 1 THEN LinkTrb ELSE TrbDefault]]

\* xhci.rs:253  enqueue_index >= size
WrapsLate(r, index) == index > r.size
Wraps(r, index) == index >= r.size

\* xhci.rs:255-258  the Link TRB gets the producer's cycle bit
LinkUpdateNever(link_trb, cycle) == link_trb
LinkUpdate(link_trb, cycle) == [link_trb EXCEPT !.control = SetCycle(link_trb.control, cycle)]

\* xhci.rs:245-266 CommandRing::enqueue, 167-187 TransferRing::enqueue
\* (the ring and its buffer after the call)
RingEnqueue(r, t, trb) ==
    LET stored == [trb EXCEPT !.control = SetCycle(trb.control, r.cycle_bit)]
        t1 == [t EXCEPT ![r.enqueue_index] = stored]
        index == r.enqueue_index + 1
    IN IF Wraps(r, index)
       THEN [ring |-> [r EXCEPT !.enqueue_index = 0, !.cycle_bit = ~r.cycle_bit],
             trbs |-> [t1 EXCEPT ![r.size] = LinkUpdate(t1[r.size], r.cycle_bit)],
             stored |-> stored]
       ELSE [ring |-> [r EXCEPT !.enqueue_index = index], trbs |-> t1, stored |-> stored]

\* The TRBs callers hand to enqueue: a No-op command and a Normal transfer
\* request with IOC, with the cycle bit as the caller left it (clear in the
\* code; set is included to show that enqueue overrides it).
RingKinds == {"command", "transfer"}
CallerTrbs ==
    {Trb(0, 0, TRB_NOOP_COMMAND * TRB_TYPE_SHIFT),
     Trb(0, 8, BitOr(TRB_NORMAL * TRB_TYPE_SHIFT, 32)),
     Trb(0, 8, BitOr(TRB_NORMAL * TRB_TYPE_SHIFT, 33))}
EndpointIds == {1, 3}

NoWrite == [slot |-> 0, cycle |-> FALSE, trb |-> TrbDefault, wrapped |-> FALSE]

RingIdle ==
    /\ ring = [kind |-> "none", size |-> 0, enqueue_index |-> 0, cycle_bit |-> FALSE]
    /\ trbs = <<>>
    /\ doorbell = 0
    /\ enq = 0
    /\ lastWrite = NoWrite

\* xhci.rs:474 CommandRing::new(base, 4096), 800/1104 TransferRing::new(buf, 4096);
\* followed here for buffers of 2..MaxRingSlots slots.
RingInit ==
    /\ \E kind \in RingKinds, n \in 2..MaxRingSlots :
          /\ ring = RingNew(kind, n * TRB_SIZE).ring
          /\ trbs = RingNew(kind, n * TRB_SIZE).trbs
    /\ doorbell = 0
    /\ enq = 0
    /\ lastWrite = NoWrite

\* One enqueue call and its doorbell write.
Enqueue(trb, endpoint_id) ==
    /\ enq < MaxEnqueues
    /\ LET r == RingEnqueue(ring, trbs, trb) IN
        /\ ring' = r.ring
        /\ trbs' = r.trbs
        /\ lastWrite' = [slot |-> ring.enqueue_index, cycle |-> ring.cycle_bit,
                         trb |-> r.trbs[ring.enqueue_index],
                         wrapped |-> (r.ring.enqueue_index = 0)]
    /\ doorbell' = IF ring.kind = "command" THEN 0 ELSE endpoint_id
    /\ enq' = enq + 1
    /\ UNCHANGED <<frameVars, heapVars, pageVars, kbdVars, schedVars, sysVars, userVars, hwVars>>

RingNext == \E trb \in CallerTrbs, ep \in EndpointIds : Enqueue(trb, ep)

(***************************************************************************)
(*        xHCI EVENT RING, KEYBOARD REPORTS AND KEY BUFFER (xhci.rs)       *)
(***************************************************************************)
MaxReports     == 3     \* keyboard transfer events followed
MaxOtherEvents == 2     \* other events posted by the controller
MaxReads       == 2     \* read_key syscalls followed

EVENT_RING_SLOTS             == 256  \* xhci.rs:540  event_ring_size: 4096 / 16
KBD_BUF_SIZE                 == 256  \* xhci.rs:320
HID_TABLE_LEN                == 128  \* xhci.rs:347  HID_ASCII_TABLE: [u8; 128]
TRB_TRANSFER_EVENT           == 32   \* xhci.rs:75
TRB_COMMAND_COMPLETION_EVENT == 33   \* xhci.rs:64
TRB_PORT_STATUS_CHANGE_EVENT == 34   \* xhci.rs:65
SHIFT24            == 16777216       \* xhci.rs:96, 100  >> 24
EVENT_RING_BUFFER  == 65536          \* xhci.rs:290  address of the static
KEYBOARD_TR_BUFFER == 131072         \* xhci.rs:210  address of KEYBOARD_TR_BUFFERS[0]
EP0_TR_BUFFER      == 262144         \* xhci.rs:198  address of EP0_TR_BUFFERS[0]
KEYBOARD_EP_INDEX  == 3              \* xhci.rs:1041 KEYBOARD_EP_INDICES[0] once set up
COMPLETION_SUCCESS == 1              \* xhci.rs:658  code == 1
COMPLETION_STALL   == 6              \* xhci.rs:697  code == 6
COMPLETION_SHORT_PACKET == 13        \* a completion code the controller reports; no test of it in xhci.rs:672-700

\* xhci.rs:347-407  HID_ASCII_TABLE: the entries that are set, the rest is 0
HidEntries ==
    {<<4, 97>>, <<5, 98>>, <<6, 99>>, <<7, 100>>, <<8, 101>>, <<9, 102>>,
     <<10, 103>>, <<11, 104>>, <<12, 105>>, <<13, 106>>, <<14, 107>>, <<15, 108>>,
     <<16, 109>>, <<17, 110>>, <<18, 111>>, <<19, 112>>, <<20, 113>>, <<21, 114>>,
     <<22, 115>>, <<23, 116>>, <<24, 117>>, <<25, 118>>, <<26, 119>>, <<27, 120>>,
     <<28, 121>>, <<29, 122>>, <<30, 49>>, <<31, 50>>, <<32, 51>>, <<33, 52>>,
     <<34, 53>>, <<35, 54>>, <<36, 55>>, <<37, 56>>, <<38, 57>>, <<39, 48>>,
     <<40, 10>>, <<42, 8>>, <<43, 9>>, <<44, 32>>, <<45, 45>>, <<46, 61>>,
     <<47, 91>>, <<48, 93>>, <<49, 92>>, <<51, 59>>, <<52, 39>>, <<54, 44>>,
     <<55, 46>>, <<56, 47>>, <<79, 128>>, <<80, 129>>, <<81, 130>>, <<82, 131>>}
HID_ASCII_TABLE ==
    [k \in 0..(HID_TABLE_LEN - 1) |->
        IF \E p \in HidEntries : p[1] = k
        THEN (CHOOSE p \in HidEntries : p[1] = k)[2]
        ELSE 0]

\* xhci.rs:95-97, 99-101  Trb::completion_code, Trb::slot_id (as u8)
completion_code(trb) == (trb.status \div SHIFT24) % 256
slot_id(trb) == (trb.control \div SHIFT24) % 256

\* The key buffer as the functions below see it; `log` is history: every
\* push_key call with its key and whether the key was stored.
KeyBuffer(buf, hd, tl) == [buf |-> buf, head |-> hd, tail |-> tl, log |-> <<>>]

\* xhci.rs:325-333  push_key
HasRoomAlways(kb) == TRUE
HasRoom(kb) == ((kb.head + 1) % KBD_BUF_SIZE) # kb.tail
push_key(kb, key) ==
    IF HasRoom(kb)
    THEN [kb EXCEPT !.buf[kb.head] = key,
                    !.head = (kb.head + 1) % KBD_BUF_SIZE,
                    !.log = Append(kb.log, [key |-> key, stored |-> TRUE])]
    ELSE [kb EXCEPT !.log = Append(kb.log, [key |-> key, stored |-> FALSE])]

\* xhci.rs:335-345  get_key
get_key(kb) ==
    IF kb.head = kb.tail
    THEN [ret |-> None, kb |-> kb]
    ELSE [ret |-> kb.buf[kb.tail],
          kb |-> [kb EXCEPT !.tail = (kb.tail + 1) % KBD_BUF_SIZE]]

\* syscall.rs:274-280  sys_read_key
sys_read_key(kb) ==
    LET r == get_key(kb) IN
    [ret |-> IF r.ret # None THEN r.ret ELSE 0, kb |-> r.kb]

\* A report is 8 bytes; report[i] of the code is Byte(report, i).
Byte(report, i) == report[i + 1]

\* xhci.rs:667-673  was the key already pressed in the previous report
FoundNever(prev_rep, key) == FALSE
Found(prev_rep, key) == \E j \in 2..7 : Byte(prev_rep, j) = key

\* xhci.rs:664-686  the loop over the keycodes of a report, from index i
RECURSIVE ReportLoop(_, _, _, _)
ReportLoop(report, prev_rep, kb, i) ==
    IF i >= 8 THEN kb
    ELSE LET key == Byte(report, i)
             kb1 == IF /\ key # 0
                       /\ ~Found(prev_rep, key)
                       /\ key < HID_TABLE_LEN
                       /\ HID_ASCII_TABLE[key] # 0
                    THEN push_key(kb, HID_ASCII_TABLE[key])
                    ELSE kb
         IN ReportLoop(report, prev_rep, kb1, i + 1)

\* xhci.rs:1188-1192  the request TRB: Normal, 8 bytes, IOC
ReportRequest == Trb(0, 8, BitOr(TRB_NORMAL * TRB_TYPE_SHIFT, 32))

\* xhci.rs:644-651  is_keyboard_report; only slot 1 has a keyboard ring
\* (KEYBOARD_TRANSFER_RINGS[slot_id - 1] is None for the other slots)
is_keyboard_report(r, slot, trb_ptr) ==
    IF slot = 1 /\ r.kind = "transfer"
    THEN trb_ptr >= KEYBOARD_TR_BUFFER /\ trb_ptr < KEYBOARD_TR_BUFFER + r.size * TRB_SIZE
    ELSE FALSE

\* The state process_events works on.  handled and rep are history: the
\* TRBs handled by this call, and the keyboard report it processed.
NoReport == [valid |-> FALSE, prev |-> <<>>, report |-> <<>>, log |-> <<>>, free |-> 0]
FreeSlots(kb) == (KBD_BUF_SIZE - 1) - ((kb.head - kb.tail) % KBD_BUF_SIZE)

\* xhci.rs:687  *prev_report = *report
KeepPrevious(report, prev_rep) == prev_rep
NewPrevious(report, prev_rep) == report

\* xhci.rs:640-702  the Transfer Event branch
TransferEvent(st, trb, report) ==
    LET code == completion_code(trb)
        slot == slot_id(trb)
        st1 == IF is_keyboard_report(st.ring, slot, trb.param) /\ code = COMPLETION_SUCCESS
               THEN LET kb == ReportLoop(report, st.prev, [st.kb EXCEPT !.log = <<>>], 2)
                        q == IF KEYBOARD_EP_INDEX # 0
                             THEN RingEnqueue(st.ring, st.trbs, ReportRequest)
                             ELSE [ring |-> st.ring, trbs |-> st.trbs]
                    IN [st EXCEPT !.kb = kb,
                                  !.prev = NewPrevious(report, st.prev),
                                  !.ring = q.ring,
                                  !.trbs = q.trbs,
                                  !.doorbell = KEYBOARD_EP_INDEX,
                                  !.rep = [valid |-> TRUE, prev |-> st.prev,
                                           report |-> report, log |-> kb.log,
                                           free |-> FreeSlots(st.kb)]]
               ELSE st
    IN [st1 EXCEPT !.cc = code]

\* xhci.rs:625-708  dispatch on the event type
Handle(st, trb, report) ==
    IF trb_type(trb) = TRB_PORT_STATUS_CHANGE_EVENT THEN st
    ELSE IF trb_type(trb) = TRB_COMMAND_COMPLETION_EVENT
    THEN [st EXCEPT !.cc = completion_code(trb), !.sl = slot_id(trb)]
    ELSE IF trb_type(trb) = TRB_TRANSFER_EVENT THEN TransferEvent(st, trb, report)
    ELSE st

\* xhci.rs:711-718  advance the dequeue pointer, wrap and flip at the end
AtRingEndEarly(erdp_val) == erdp_val >= EVENT_RING_BUFFER + (EVENT_RING_SLOTS - 1) * TRB_SIZE
AtRingEnd(erdp_val) == erdp_val >= EVENT_RING_BUFFER + EVENT_RING_SLOTS * TRB_SIZE
Advance(st) ==
    LET next == st.erdp_val + TRB_SIZE IN
    IF AtRingEnd(next)
    THEN [st EXCEPT !.erdp_val = EVENT_RING_BUFFER, !.cycle = ~st.cycle]
    ELSE [st EXCEPT !.erdp_val = next]

EventIndex(erdp_val) == (erdp_val - EVENT_RING_BUFFER) \div TRB_SIZE

\* xhci.rs:618-619  the ownership test of the loop
Owned(trb, expected) == cycle_bit(trb) = expected

\* xhci.rs:614-719  the loop of process_events over the event ring `ring_mem`
RECURSIVE EventLoop(_, _, _)
EventLoop(st, ring_mem, report) ==
    LET trb == ring_mem[EventIndex(st.erdp_val)] IN
    IF ~Owned(trb, st.cycle) THEN st
    ELSE EventLoop(
            Advance(Handle([st EXCEPT !.handled =
                               Append(st.handled,
                                      [slot |-> EventIndex(st.erdp_val),
                                       cycle |-> cycle_bit(trb),
                                       expected |-> st.cycle])],
                           trb, report)),
            ring_mem, report)

\* xhci.rs:604-722  process_events on the driver's state
process_events(erdp_reg, cycle, ring_mem, report, prev_rep, kb, r, t, db, cc, sl) ==
    EventLoop([erdp_val |-> erdp_reg - (erdp_reg % 16),
               cycle |-> cycle, prev |-> prev_rep, kb |-> kb,
               ring |-> r, trbs |-> t, doorbell |-> db, cc |-> cc, sl |-> sl,
               handled |-> <<>>, rep |-> NoReport],
              ring_mem, report)

\* ---- the controller and the keyboard, as the driver sees them ----

\* An event TRB written by the controller with its producer cycle state.
EventTrb(type, param, code, slot, cycle) ==
    Trb(param, code * SHIFT24, slot * SHIFT24 + type * TRB_TYPE_SHIFT + BoolBit(cycle))

PortStatusChange(cycle) == EventTrb(TRB_PORT_STATUS_CHANGE_EVENT, SHIFT24, 1, 0, cycle)

\* The events other than keyboard reports: a port status change, a command
\* completion for slot 2, and a transfer event of slot 1's EP0 ring and one
\* of slot 2 (which has no keyboard ring).
OtherEvents ==
    {[type |-> TRB_PORT_STATUS_CHANGE_EVENT, param |-> SHIFT24, code |-> 1, slot |-> 0],
     [type |-> TRB_COMMAND_COMPLETION_EVENT, param |-> 0, code |-> 1, slot |-> 2],
     [type |-> TRB_TRANSFER_EVENT, param |-> EP0_TR_BUFFER, code |-> 1, slot |-> 1],
     [type |-> TRB_TRANSFER_EVENT, param |-> KEYBOARD_TR_BUFFER, code |-> 1, slot |-> 2]}

\* The keycodes of the reports followed: 'a' (4), 'b' (5), the rollover
\* error code (1, no table entry), a code beyond the table (200).
Report(k2, k3, k7) == <<0, 0, k2, k3, 0, 0, 0, k7>>
Reports ==
    {Report(0, 0, 0), Report(4, 0, 0), Report(4, 5, 0), Report(5, 4, 0),
     Report(4, 4, 0), Report(0, 0, 5), Report(200, 0, 4), <<0, 0, 1, 1, 1, 1, 1, 1>>}
TrackedKeys == {4, 5}
ZeroReport == <<0, 0, 0, 0, 0, 0, 0, 0>>

\* The states the driver is followed from: the event ring after d events of
\* its first lap (lap = 1) or second lap (lap = 2) were posted and handled,
\* and the key buffer empty or holding 254 keys not yet read.
EventRingAfter(d, lap) ==
    [i \in 0..(EVENT_RING_SLOTS - 1) |->
        IF i < d THEN PortStatusChange(lap = 1)
        ELSE IF lap = 1 THEN TrbDefault ELSE PortStatusChange(TRUE)]
KeyBufferHolding(n, tl) ==
    [buf |-> [i \in 0..(KBD_BUF_SIZE - 1) |->
                 IF ((i - tl) % KBD_BUF_SIZE) < n THEN 120 ELSE 0],
     head |-> (tl + n) % KBD_BUF_SIZE, tail |-> tl, log |-> <<>>]
EventRingStarts ==
    {[d |-> 0, lap |-> 1, n |-> 0, tl |-> 0],
     [d |-> 254, lap |-> 1, n |-> 0, tl |-> 0],
     [d |-> 255, lap |-> 2, n |-> 0, tl |-> 0]}
KeyBufferStarts ==
    {[d |-> 0, lap |-> 1, n |-> 0, tl |-> 0],
     [d |-> 0, lap |-> 1, n |-> 254, tl |-> 255],
     [d |-> 0, lap |-> 1, n |-> 253, tl |-> 3]}

NoRead == [valid |-> FALSE, ret |-> 0, empty |-> TRUE, oldest |-> 0]
NoRun == [active |-> FALSE, count |-> 0, room |-> TRUE, dup |-> FALSE]

KbdIdle ==
    /\ er = <<>>
    /\ erdp = 0
    /\ event_ring_cycle_bit = FALSE
    /\ hc = [enq |-> 0, pcs |-> FALSE]
    /\ dev = [deq |-> 0, ccs |-> FALSE]
    /\ report_buf = ZeroReport
    /\ prev_report = ZeroReport
    /\ KEYBOARD_BUFFER = <<>>
    /\ KBD_BUF_HEAD = 0
    /\ KBD_BUF_TAIL = 0
    /\ LAST_COMPLETION_CODE = 0
    /\ LAST_SLOT_ID = 0
    /\ handled = <<>>
    /\ lastReport = NoReport
    /\ runs = <<>>
    /\ fifo = <<>>
    /\ preload = 0
    /\ lastRead = NoRead
    /\ kbdOp = "idle"
    /\ counts = [reports |-> 0, others |-> 0, reads |-> 0]

\* The driver after init (xhci.rs:413-549), setup_keyboard_endpoint
\* (1055-1173) and the first queue_keyboard_report_request (1175-1196) for
\* the keyboard in slot 1, at the start s.
DriverStart(s) ==
    /\ er = EventRingAfter(s.d, s.lap)
    /\ erdp = EVENT_RING_BUFFER + s.d * TRB_SIZE
    /\ event_ring_cycle_bit = (s.lap = 1)
    /\ hc = [enq |-> s.d, pcs |-> (s.lap = 1)]
    /\ KEYBOARD_BUFFER = KeyBufferHolding(s.n, s.tl).buf
    /\ KBD_BUF_HEAD = KeyBufferHolding(s.n, s.tl).head
    /\ KBD_BUF_TAIL = s.tl
    /\ preload = s.n
    /\ ring = RingEnqueue(RingNew("transfer", 4096).ring, RingNew("transfer", 4096).trbs,
                          ReportRequest).ring
    /\ trbs = RingEnqueue(RingNew("transfer", 4096).ring, RingNew("transfer", 4096).trbs,
                          ReportRequest).trbs
    /\ doorbell = KEYBOARD_EP_INDEX
    /\ enq = 1
    /\ lastWrite = NoWrite
    /\ dev = [deq |-> 0, ccs |-> TRUE]
    /\ report_buf = ZeroReport
    /\ prev_report = ZeroReport
    /\ LAST_COMPLETION_CODE = 0
    /\ LAST_SLOT_ID = 0
    /\ handled = <<>>
    /\ lastReport = NoReport
    /\ runs = [k \in TrackedKeys |-> NoRun]
    /\ fifo = <<>>
    /\ lastRead = NoRead
    /\ kbdOp = "init"
    /\ counts = [reports |-> 0, others |-> 0, reads |-> 0]

KbdInit == \E s \in KeyBufferStarts : DriverStart(s)
EventsInit == \E s \in EventRingStarts : DriverStart(s)

\* The controller writes an event at its enqueue pointer unless the ring is
\* full (the slot before the driver's dequeue pointer stays free).
EventRingFull == ((hc.enq + 1) % EVENT_RING_SLOTS) = EventIndex(erdp - (erdp % 16))
PostTrb(ev) ==
    /\ ~EventRingFull
    /\ er' = [er EXCEPT ![hc.enq] = EventTrb(ev.type, ev.param, ev.code, ev.slot, hc.pcs)]
    /\ hc' = IF hc.enq + 1 = EVENT_RING_SLOTS
             THEN [enq |-> 0, pcs |-> ~hc.pcs]
             ELSE [hc EXCEPT !.enq = hc.enq + 1]

driverVars == <<erdp, event_ring_cycle_bit, prev_report, KEYBOARD_BUFFER, KBD_BUF_HEAD,
                KBD_BUF_TAIL, LAST_COMPLETION_CODE, LAST_SLOT_ID, handled, lastReport,
                runs, fifo, preload, lastRead>>

PostEvent(ev) ==
    /\ counts.others < MaxOtherEvents
    /\ PostTrb(ev)
    /\ counts' = [counts EXCEPT !.others = counts.others + 1]
    /\ kbdOp' = "post"
    /\ UNCHANGED <<dev, report_buf, driverVars, frameVars, heapVars, pageVars, ringVars, schedVars, sysVars, userVars, hwVars>>

\* The keyboard endpoint has a request to serve: the TRB at the device's
\* dequeue pointer carries the device's cycle state and is not the Link TRB.
RequestOutstanding ==
    /\ cycle_bit(trbs[dev.deq]) = dev.ccs
    /\ trb_type(trbs[dev.deq]) = TRB_NORMAL

\* The keyboard answers the outstanding request: the report is written to
\* KEYBOARD_REPORT_BUFFERS[0] and a Transfer Event pointing at the request
\* TRB is posted with the completion code.
KeyboardTransfer(report, code) ==
    /\ counts.reports < MaxReports
    /\ RequestOutstanding
    /\ report_buf' = IF code \in {COMPLETION_SUCCESS, COMPLETION_SHORT_PACKET}
                     THEN report ELSE report_buf
    /\ PostTrb([type |-> TRB_TRANSFER_EVENT,
                param |-> KEYBOARD_TR_BUFFER + dev.deq * TRB_SIZE,
                code |-> code, slot |-> 1])
    /\ dev' = [dev EXCEPT !.deq = dev.deq + 1]
    /\ counts' = [counts EXCEPT !.reports = counts.reports + 1]
    /\ kbdOp' = "report"
    /\ UNCHANGED <<driverVars, frameVars, heapVars, pageVars, ringVars, schedVars, sysVars, userVars, hwVars>>

\* ---- history kept for the properties ----
InReport(report, k) == \E i \in 2..7 : Byte(report, i) = k
StoredKeys(log) == SelectSeq(log, LAMBDA x : x.stored)
KeysOf(log) == [i \in 1..Len(log) |-> log[i].key]
TimesStored(log, c) == Len(SelectSeq(log, LAMBDA x : x.stored /\ x.key = c))

\* The run of consecutive reports holding keycode k, after one more report.
NextRun(run, rep, k) ==
    IF ~InReport(rep.report, k) THEN NoRun
    ELSE LET n == TimesStored(rep.log, HID_ASCII_TABLE[k])
             dupNow == Cardinality({i \in 2..7 : Byte(rep.report, i) = k}) > 1
         IN IF ~run.active
            THEN [active |-> TRUE, count |-> n,
                  room |-> (rep.free >= Len(rep.log)), dup |-> dupNow]
            ELSE [run EXCEPT !.count = run.count + n, !.dup = run.dup \/ dupNow]

\* syscall.rs:181-187 (syscall 9) and the wait loops of the driver: one
\* call of process_events, the keyboard request it re-queues included.
RunProcessEvents ==
    /\ kbdOp # "idle"
    /\ LET st == process_events(erdp, event_ring_cycle_bit, er, report_buf, prev_report,
                                KeyBuffer(KEYBOARD_BUFFER, KBD_BUF_HEAD, KBD_BUF_TAIL),
                                ring, trbs, doorbell, LAST_COMPLETION_CODE, LAST_SLOT_ID)
       IN /\ erdp' = BitOr(st.erdp_val, 8)
          /\ event_ring_cycle_bit' = st.cycle
          /\ prev_report' = st.prev
          /\ KEYBOARD_BUFFER' = st.kb.buf
          /\ KBD_BUF_HEAD' = st.kb.head
          /\ KBD_BUF_TAIL' = st.kb.tail
          /\ ring' = st.ring
          /\ trbs' = st.trbs
          /\ doorbell' = st.doorbell
          /\ LAST_COMPLETION_CODE' = st.cc
          /\ LAST_SLOT_ID' = st.sl
          /\ handled' = st.handled
          /\ lastReport' = st.rep
          /\ enq' = IF st.rep.valid THEN enq + 1 ELSE enq
          /\ lastWrite' = IF st.rep.valid
                          THEN [slot |-> ring.enqueue_index, cycle |-> ring.cycle_bit,
                                trb |-> st.trbs[ring.enqueue_index],
                                wrapped |-> (st.ring.enqueue_index = 0)]
                          ELSE lastWrite
          /\ fifo' = IF st.rep.valid THEN fifo \o KeysOf(StoredKeys(st.rep.log)) ELSE fifo
          /\ runs' = IF st.rep.valid
                     THEN [k \in TrackedKeys |-> NextRun(runs[k], st.rep, k)]
                     ELSE runs
    /\ kbdOp' = "process"
    /\ UNCHANGED <<er, hc, dev, report_buf, preload, lastRead, counts>>

ProcessEvents ==
    /\ RunProcessEvents
    /\ UNCHANGED <<frameVars, heapVars, pageVars, schedVars, sysVars, userVars, hwVars>>

\* syscall.rs:193-196 (syscall 11)  read_key
ReadKey ==
    /\ kbdOp # "idle"
    /\ counts.reads < MaxReads
    /\ LET r == sys_read_key(KeyBuffer(KEYBOARD_BUFFER, KBD_BUF_HEAD, KBD_BUF_TAIL)) IN
        /\ KEYBOARD_BUFFER' = r.kb.buf
        /\ KBD_BUF_HEAD' = r.kb.head
        /\ KBD_BUF_TAIL' = r.kb.tail
        /\ lastRead' = [valid |-> TRUE, ret |-> r.ret,
                        empty |-> (preload = 0 /\ fifo = <<>>),
                        oldest |-> IF preload > 0 THEN 120
                                   ELSE IF fifo # <<>> THEN Head(fifo) ELSE 0]
    /\ preload' = IF preload > 0 THEN preload - 1 ELSE 0
    /\ fifo' = IF preload = 0 /\ fifo # <<>> THEN Tail(fifo) ELSE fifo
    /\ counts' = [counts EXCEPT !.reads = counts.reads + 1]
    /\ kbdOp' = "read"
    /\ UNCHANGED <<er, erdp, event_ring_cycle_bit, hc, dev, report_buf, prev_report,
                   LAST_COMPLETION_CODE, LAST_SLOT_ID, handled, lastReport, runs,
                   frameVars, heapVars, pageVars, ringVars, schedVars, sysVars, userVars, hwVars>>

\* The keyboard, the driver and a reader of keys.
KbdNext ==
    \/ \E report \in Reports : KeyboardTransfer(report, COMPLETION_SUCCESS)
    \/ ProcessEvents
    \/ ReadKey

\* The controller posting events of every kind, and the driver.
EventsNext ==
    \/ \E ev \in OtherEvents : PostEvent(ev)
    \/ KeyboardTransfer(Report(4, 5, 0), COMPLETION_SUCCESS)
    \/ KeyboardTransfer(ZeroReport, COMPLETION_STALL)
    \/ KeyboardTransfer(Report(4, 5, 0), COMPLETION_SHORT_PACKET)
    \/ ProcessEvents

(***************************************************************************)
(*                 THE SCHEDULER  (src/src/scheduler.rs)                   *)
(*                                                                         *)
(* Scheduling is cooperative: the task that is running calls add_new_task, *)
(* add_new_user_task, switch_task or terminate_task (syscalls 4, 5 and 6,  *)
(* syscall.rs:158-172).  switch_task changes no scheduler state after its  *)
(* context_switch, so each call is one step.  Task indices are 0-based as  *)
(* in the code; task i is tasks[i + 1].                                    *)
(***************************************************************************)
MaxTasks == 4      \* tasks ever created, the main task included
MaxYields == 4     \* switch_task calls in a row that the history keeps

\* scheduler.rs:9-14  enum TaskStatus
TaskStatus == {"Ready", "Running", "Terminated"}

\* syscall.rs:27-29  get_global_gs_base(): the address of KERNEL_GS_BASE
GLOBAL_GS_BASE == 4096
\* scheduler.rs:69-74  Box::into_raw(kgs_base): a heap address, one per task
KgsBox(id) == 8192 + 32 * id

\* scheduler.rs:16-23  struct Task (the fields the scheduler reads again)
Task(id, status, gs_base) == [id |-> id, status |-> status, gs_base |-> gs_base]

\* scheduler.rs:44-51  the entry init() makes for the running kernel thread
main_task == Task(0, "Running", GLOBAL_GS_BASE)

\* history: the last scheduler call, the current index before and after it,
\* and the value it wrote to MSR_GS_BASE (0: none); here no call yet
NoSched == [op |-> "init", from |-> 0, to |-> 0, wrmsr |-> 0]

\* scheduler.rs:30  SCHEDULER = None: every scheduler function does nothing
SchedIdle ==
    /\ tasks = <<>>
    /\ current_task_index = 0
    /\ NEXT_TASK_ID = 1
    /\ halted = FALSE
    /\ lastSched = NoSched
    /\ yields = <<>>

\* scheduler.rs:35-56  init(); NEXT_TASK_ID starts at 1 (scheduler.rs:31)
SchedInit ==
    /\ tasks = <<main_task>>
    /\ current_task_index = 0
    /\ NEXT_TASK_ID = 1
    /\ halted = FALSE
    /\ lastSched = NoSched
    /\ yields = <<>>

\* scheduler.rs:201  the status switch_task looks for (variant: anything
\* that is not running)
SelectableNotRunning(status) == status # "Running"
Selectable(status) == status = "Ready"

\* scheduler.rs:196  where the search starts (variant: always at entry 0)
StartIndexZero(current_index, n) == 0
StartIndex(current_index, n) == (current_index + 1) % n

\* scheduler.rs:213  the step of the search (variant: backwards)
NextIndexBack(next_index, n) == (next_index + n - 1) % n
NextIndex(next_index, n) == (next_index + 1) % n

\* scheduler.rs:200-214  the search loop: at most `remaining` entries are
\* looked at, starting at next_index
RECURSIVE FindReady(_, _, _)
FindReady(ts, next_index, remaining) ==
    IF remaining = 0
    THEN [found |-> FALSE, next_index |-> next_index]
    ELSE IF Selectable(ts[next_index + 1].status)
         THEN [found |-> TRUE, next_index |-> next_index]
         ELSE FindReady(ts, NextIndex(next_index, Len(ts)), remaining - 1)

\* scheduler.rs:236-241  the statuses after a switch from old_index to
\* next_index
SwitchStatusesKeepRunning(ts, old_index, next_index) ==
    [ts EXCEPT ![next_index + 1].status = "Running"]
SwitchStatuses(ts, old_index, next_index) ==
    LET released == IF ts[old_index + 1].status = "Running"
                    THEN [ts EXCEPT ![old_index + 1].status = "Ready"]
                    ELSE ts
    IN  [released EXCEPT ![next_index + 1].status = "Running"]

\* scheduler.rs:218  with no Ready task, the caller's status that ends in the
\* hlt loop (variant: none does)
HaltsNever(status) == FALSE
Halts(status) == status = "Terminated"

\* scheduler.rs:246-251  the value switch_task writes to MSR_GS_BASE for the
\* incoming task; 0: no write (variant: never written)
NewGsBaseNone(task) == 0
NewGsBase(task) == task.gs_base

\* scheduler.rs:314-322  current_task_id
current_task_id(ts, current_index) ==
    IF ts = <<>> THEN 0 ELSE ts[current_index + 1].id

\* scheduler.rs:191-257  switch_task on scheduler state (ts, current_index):
\* the new task list and current index, whether the caller ends in the hlt
\* loop, and the value written to MSR_GS_BASE (0: none)
switch_task(ts, current_index) ==
    LET r == FindReady(ts, StartIndex(current_index, Len(ts)), Len(ts))
        stay == [tasks |-> ts, current_task_index |-> current_index,
                 halted |-> FALSE, wrmsr |-> 0]
    IN  IF ~r.found
        THEN IF Halts(ts[current_index + 1].status)
             THEN [stay EXCEPT !.halted = TRUE]
             ELSE stay
        ELSE IF r.next_index = current_index
        THEN stay
        ELSE [tasks |-> SwitchStatuses(ts, current_index, r.next_index),
              current_task_index |-> r.next_index,
              halted |-> FALSE,
              wrmsr |-> NewGsBase(ts[r.next_index + 1])]

\* scheduler.rs:267-287  terminate_task: mark the current task, then switch
terminate_task(ts, current_index) ==
    switch_task([ts EXCEPT ![current_index + 1].status = "Terminated"], current_index)

\* scheduler.rs:134-189  add_new_task: a kernel task, gs_base 0
AddNewTask ==
    /\ tasks # <<>>
    /\ ~halted
    /\ NEXT_TASK_ID < MaxTasks
    /\ tasks' = Append(tasks, Task(NEXT_TASK_ID, "Ready", 0))
    /\ NEXT_TASK_ID' = NEXT_TASK_ID + 1
    /\ lastSched' = [op |-> "add_new_task", from |-> current_task_index,
                     to |-> current_task_index, wrmsr |-> 0]
    /\ yields' = <<>>
    /\ UNCHANGED <<current_task_index, halted>>
    /\ UNCHANGED <<frameVars, heapVars, pageVars, ringVars, kbdVars, sysVars, userVars, hwVars>>

\* scheduler.rs:58-127  add_new_user_task (syscall 4, syscall.rs:242-246)
AddNewUserTask ==
    /\ tasks # <<>>
    /\ ~halted
    /\ NEXT_TASK_ID < MaxTasks
    /\ tasks' = Append(tasks, Task(NEXT_TASK_ID, "Ready", KgsBox(NEXT_TASK_ID)))
    /\ NEXT_TASK_ID' = NEXT_TASK_ID + 1
    /\ lastSched' = [op |-> "add_new_user_task", from |-> current_task_index,
                     to |-> current_task_index, wrmsr |-> 0]
    /\ yields' = <<>>
    /\ UNCHANGED <<current_task_index, halted>>
    /\ UNCHANGED <<frameVars, heapVars, pageVars, ringVars, kbdVars, sysVars, userVars, hwVars>>

\* history: the latest MaxYields switch_task calls made in a row: the id of
\* the caller and current_task_id() after the call
Yielded(r) ==
    LET all == Append(yields, [by  |-> current_task_id(tasks, current_task_index),
                               now |-> current_task_id(r.tasks, r.current_task_index)])
    IN  IF Len(all) > MaxYields THEN Tail(all) ELSE all

\* the step of a scheduler call with result r
SchedStep(op, r) ==
    /\ tasks' = r.tasks
    /\ current_task_index' = r.current_task_index
    /\ halted' = r.halted
    /\ lastSched' = [op |-> op, from |-> current_task_index,
                     to |-> r.current_task_index, wrmsr |-> r.wrmsr]
    /\ yields' = IF op = "switch_task" THEN Yielded(r) ELSE <<>>
    /\ UNCHANGED NEXT_TASK_ID
    /\ UNCHANGED <<frameVars, heapVars, pageVars, ringVars, kbdVars, sysVars, userVars, hwVars>>

\* scheduler.rs:191-257  switch_task (syscall 5, syscall.rs:248-250)
SwitchTask ==
    /\ tasks # <<>>
    /\ ~halted
    /\ SchedStep("switch_task", switch_task(tasks, current_task_index))

\* scheduler.rs:267-287  terminate_task (syscall 6, syscall.rs:252-254)
TerminateTask ==
    /\ tasks # <<>>
    /\ ~halted
    /\ SchedStep("terminate_task", terminate_task(tasks, current_task_index))

SchedNext ==
    \/ AddNewTask
    \/ AddNewUserTask
    \/ SwitchTask
    \/ TerminateTask

(***************************************************************************)
(*            THE SYSCALL DISPATCHER  (src/src/syscall.rs)                 *)
(*                                                                         *)
(* A task in Ring 3 executes SYSCALL with an id and arguments; the stub    *)
(* calls syscall_dispatcher_impl, which runs in Ring 0.  The heap and the  *)
(* scheduler are the ones modelled above; the xHCI driver is left          *)
(* uninitialised (XHCI_CTX = None, the key buffer empty), the console and  *)
(* the NVMe queues are not part of the state.                              *)
(***************************************************************************)
MaxSyscalls == 3       \* syscalls followed

\* syscall.rs:199  usize::MAX, all 64 bits set, kept as its two's-complement
\* reading
USIZE_MAX == 0 - 1

\* allocator.rs:380  alloc(size): Layout::from_size_align(size, 8)
DEFAULT_ALIGN == 8

\* syscall.rs:196-200  the value of the `_` arm (variant: 0)
UnknownReturnZero(id) == 0
UnknownReturn(id) == USIZE_MAX

\* history: no syscall yet
NoSyscall == [id |-> 0, arg1 |-> 0, arg2 |-> 0, arg3 |-> 0, ret |-> 0, call |-> "none"]

SysIdle ==
    /\ sys = NoSyscall
    /\ syscalls = 0
    /\ powered = TRUE

\* syscall.rs:232-234  sys_alloc(size): allocator::alloc(size), which runs in
\* Ring 0 (get_cpl() = 0) with the default alignment
sys_alloc(m, hd, size) == KernelAlloc(m, hd, size, DEFAULT_ALIGN)

\* syscall.rs:236-240  sys_free(ptr): allocator::free(ptr)
sys_free(m, ptr) == KernelDealloc(m, ptr)

\* syscall.rs:133-203  syscall_dispatcher_impl on the kernel state: the
\* function it calls, the value it returns and the state it leaves
syscall_dispatcher_impl(id, arg1, arg2, arg3) ==
    LET same == [call |-> "none", ret |-> 0, mem |-> mem,
                 sched |-> [tasks |-> tasks, current_task_index |-> current_task_index,
                            halted |-> FALSE, wrmsr |-> 0],
                 next_id |-> NEXT_TASK_ID,
                 kb |-> KeyBuffer(KEYBOARD_BUFFER, KBD_BUF_HEAD, KBD_BUF_TAIL),
                 powered |-> TRUE]
    IN  CASE id = 1  -> [same EXCEPT !.call = "sys_print"]
          [] id = 2  -> LET r == sys_alloc(mem, head, arg1) IN
                        [same EXCEPT !.call = "sys_alloc", !.mem = r.mem, !.ret = r.ret]
          [] id = 3  -> [same EXCEPT !.call = "sys_free", !.mem = sys_free(mem, arg1)]
          [] id = 4  -> [same EXCEPT !.call = "sys_add_task",
                            !.sched.tasks = Append(tasks,
                                Task(NEXT_TASK_ID, "Ready", KgsBox(NEXT_TASK_ID))),
                            !.next_id = NEXT_TASK_ID + 1]
          [] id = 5  -> [same EXCEPT !.call = "sys_switch_task",
                            !.sched = switch_task(tasks, current_task_index)]
          [] id = 6  -> [same EXCEPT !.call = "sys_terminate_task",
                            !.sched = terminate_task(tasks, current_task_index)]
          [] id = 7  -> [same EXCEPT !.call = "sys_nvme_read"]
          [] id = 8  -> [same EXCEPT !.call = "sys_nvme_write"]
          [] id = 9  -> [same EXCEPT !.call = "process_events"]
          [] id = 10 -> [same EXCEPT !.call = "sys_shutdown", !.powered = FALSE]
          [] id = 11 -> LET r == sys_read_key(same.kb) IN
                        [same EXCEPT !.call = "sys_read_key", !.kb = r.kb, !.ret = r.ret]
          [] OTHER   -> [same EXCEPT !.call = "unknown", !.ret = UnknownReturn(id)]

\* The ids a task passes: the wire table 1..13 and ids outside it.
SyscallIds == 0..14 \cup {255}

\* <<size, align>> of the allocations a task in Ring 3 asks for
UserLayouts == {<<8, 8>>, <<24, 16>>, <<16, 4096>>}

\* The arguments that go with an id: a layout for alloc, a live pointer for
\* free and realloc, an entry point and a stack for add_task; ids without
\* arguments get zeros.
SyscallArgs(id) ==
    CASE id = 2  -> {<<l[1], l[2], 0>> : l \in UserLayouts}
      [] id = 3  -> {<<p, 0, 0>> : p \in LivePtrs}
      [] id = 13 -> {<<p, 32, 16>> : p \in LivePtrs \cup {NULL}}
      [] OTHER   -> {<<0, 0, 0>>}

SyscallInit ==
    /\ HeapInit
    /\ SchedInit
    /\ SysIdle

\* One SYSCALL of the running task, from entry to return.
Syscall(id, arg1, arg2, arg3) ==
    /\ powered
    /\ ~halted
    /\ syscalls < MaxSyscalls
    /\ (id = 4 => NEXT_TASK_ID < MaxTasks)
    /\ (id = 2 => Len(live) < MaxLive)
    /\ \E d \in {syscall_dispatcher_impl(id, arg1, arg2, arg3)} :
        /\ sys' = [id |-> id, arg1 |-> arg1, arg2 |-> arg2, arg3 |-> arg3,
                   ret |-> d.ret, call |-> d.call]
        /\ mem' = d.mem
        /\ live' = CASE d.call = "sys_alloc" /\ d.ret # NULL ->
                          Append(live, NewAllocation(d.ret, arg1, DEFAULT_ALIGN, "alloc"))
                     [] d.call = "sys_free" -> AfterFree(LiveIndex(arg1))
                     [] OTHER -> live
        /\ stale' = CASE d.call = "sys_alloc" -> stale \ {d.ret}
                      [] d.call = "sys_free" -> stale \cup {arg1}
                      [] OTHER -> stale
        /\ tasks' = d.sched.tasks
        /\ current_task_index' = d.sched.current_task_index
        /\ halted' = d.sched.halted
        /\ NEXT_TASK_ID' = d.next_id
        /\ lastSched' = IF id \in {4, 5, 6}
                        THEN [op |-> d.call, from |-> current_task_index,
                              to |-> d.sched.current_task_index,
                              wrmsr |-> d.sched.wrmsr]
                        ELSE lastSched
        /\ yields' = CASE id = 5 -> Yielded(d.sched)
                       [] id \in {4, 6} -> <<>>
                       [] OTHER -> yields
        /\ KEYBOARD_BUFFER' = d.kb.buf
        /\ KBD_BUF_HEAD' = d.kb.head
        /\ KBD_BUF_TAIL' = d.kb.tail
        /\ powered' = d.powered
    /\ syscalls' = syscalls + 1
    /\ UNCHANGED <<head, heap, lastOp, calls>>
    /\ UNCHANGED <<er, erdp, event_ring_cycle_bit, hc, dev, report_buf, prev_report,
                   LAST_COMPLETION_CODE, LAST_SLOT_ID, handled, lastReport, runs,
                   fifo, preload, lastRead, kbdOp, counts>>
    /\ UNCHANGED <<frameVars, pageVars, ringVars, userVars, hwVars>>

SyscallNext ==
    \E id \in SyscallIds : \E a \in SyscallArgs(id) : Syscall(id, a[1], a[2], a[3])

(***************************************************************************)
(*     USER TASKS: SYSCALL ENTRY AND EXIT, GS BASES, THE TSS               *)
(*     (src/src/syscall.rs, src/src/scheduler.rs, src/src/gdt.rs)          *)
(*                                                                         *)
(* The running task is the only code that executes: SFMASK clears IF on    *)
(* syscall entry (syscall.rs:53) and no interrupt handler swaps GS or      *)
(* calls the scheduler.  So a syscall runs from its entry either to its    *)
(* return or to the context_switch inside switch_task, and the task        *)
(* switched to goes on from where it stopped: a new user task in           *)
(* user_task_trampoline, a task that yielded in a syscall in the rest of   *)
(* the stub, a kernel thread in its own code.  Task 0 and the tasks made   *)
(* by add_new_task are kernel threads and call the scheduler directly.     *)
(***************************************************************************)
\* syscall.rs:15-19  struct KernelGsBase (scratch is never accessed)
KernelGsBase(kernel_stack, user_stack) ==
    [kernel_stack |-> kernel_stack, user_stack |-> user_stack]

\* scheduler.rs:64-65, 73  the stacks of the user task with id `id`: heap
\* and user addresses, one pair per task
KernelStackTop(id) == 65536 + 16384 * id
UserStackTop(id) == 1048576 + 16384 * id

\* the values of RSP a user task may hold when it executes SYSCALL
UserRsps(id) == {UserStackTop(id) - 8, UserStackTop(id) - 64}

\* syscall.rs:33, 57-63  the top of SYSCALL_STACK, stored in KERNEL_GS_BASE
SYSCALL_STACK_END == 32768

\* the `swapgs` instruction on the two GS base registers
swapgs(c) == [gs_base |-> c.kernel_gs_base, kernel_gs_base |-> c.gs_base]

\* syscall.rs:88-90  swapgs; mov gs:[8], rsp; mov rsp, gs:[0]
\* ok = FALSE: GS does not point at a KernelGsBase record
SyscallEntry(c, recs, rsp) ==
    LET c1 == swapgs(c) IN
    IF c1.gs_base \in DOMAIN recs
    THEN [ok |-> TRUE, cpu |-> c1,
          kgs |-> [recs EXCEPT ![c1.gs_base].user_stack = rsp],
          rsp |-> recs[c1.gs_base].kernel_stack]
    ELSE [ok |-> FALSE, cpu |-> c1, kgs |-> recs, rsp |-> 0]

\* syscall.rs:126-128  mov rsp, gs:[8]; swapgs; sysretq
SyscallExit(c, recs) ==
    [cpu |-> swapgs(c),
     rsp |-> IF c.gs_base \in DOMAIN recs THEN recs[c.gs_base].user_stack ELSE 0]

\* scheduler.rs:129-132  user_task_trampoline: swapgs; iretq
user_task_trampoline(c) == swapgs(c)

\* scheduler.rs:246-251  wrmsr(0xC0000101, new_gs_base) if it is non-zero
WriteGsBase(c, value) == IF value # 0 THEN [c EXCEPT !.gs_base = value] ELSE c

\* history: no syscall has returned yet
NoReturn == [valid |-> FALSE, id |-> 0, rsp |-> 0]

UserIdle ==
    /\ pos = <<>>
    /\ cpu = [gs_base |-> 0, kernel_gs_base |-> 0]
    /\ kgs = <<>>
    /\ tss_rsp0 = 0
    /\ spilled = <<>>
    /\ lastReturn = NoReturn

\* After gdt::init (TSS.rsp0 = 0, gdt.rs:61-63), syscall::init
\* (syscall.rs:35-66: KERNEL_GS_BASE.kernel_stack and MSR_KERNEL_GS_BASE) and
\* scheduler::init; task 0 is the kernel thread that is running.
UserInit ==
    /\ SchedInit
    /\ pos = <<"kernel">>
    /\ cpu = [gs_base |-> 0, kernel_gs_base |-> GLOBAL_GS_BASE]
    /\ kgs = (GLOBAL_GS_BASE :> KernelGsBase(SYSCALL_STACK_END, 0))
    /\ tss_rsp0 = 0
    /\ spilled = <<0>>
    /\ lastReturn = NoReturn

\* The task switched to goes on: what it does up to its next stop.
\* `p` is where it had stopped, `id` its task id.
Resume(p, id, c, recs) ==
    CASE p = "new_user" ->
            [pos |-> "user", cpu |-> user_task_trampoline(c), ret |-> NoReturn]
      [] p = "syscall" ->
            LET x == SyscallExit(c, recs) IN
            [pos |-> "user", cpu |-> x.cpu,
             ret |-> [valid |-> TRUE, id |-> id, rsp |-> x.rsp]]
      [] OTHER ->
            [pos |-> "kernel", cpu |-> c, ret |-> NoReturn]

\* The scheduler part of a step: the result r of switch_task or
\* terminate_task, called by the current task, which stops at `stopped` if
\* it is switched away from; c and recs are the GS bases and records at the
\* time of the call, `back` what the caller does when the call returns to it.
Switched(op, r, stopped, c, recs, back) ==
    LET old == current_task_index
        new == r.current_task_index
    IN  /\ tasks' = r.tasks
        /\ current_task_index' = new
        /\ halted' = r.halted
        /\ lastSched' = [op |-> op, from |-> old, to |-> new, wrmsr |-> r.wrmsr]
        /\ yields' = IF op = "switch_task" THEN Yielded(r) ELSE <<>>
        /\ kgs' = recs
        /\ IF new # old
           THEN LET go == Resume(pos[new + 1], tasks[new + 1].id,
                                 WriteGsBase(c, r.wrmsr), recs)
                IN  /\ pos' = [pos EXCEPT ![old + 1] = stopped, ![new + 1] = go.pos]
                    /\ cpu' = go.cpu
                    /\ lastReturn' = go.ret
           ELSE IF r.halted
           THEN /\ pos' = [pos EXCEPT ![old + 1] = stopped]
                /\ cpu' = c
                /\ lastReturn' = NoReturn
           ELSE /\ pos' = [pos EXCEPT ![old + 1] = back.pos]
                /\ cpu' = back.cpu
                /\ lastReturn' = back.ret

\* The current task and what it is doing
Running == tasks[current_task_index + 1]
InUserMode == tasks # <<>> /\ ~halted /\ pos[current_task_index + 1] = "user"
InKernelThread == tasks # <<>> /\ ~halted /\ pos[current_task_index + 1] = "kernel"

\* what a syscall does when the dispatcher returns to the stub
Return(id, c, recs) ==
    LET x == SyscallExit(c, recs) IN
    [pos |-> "user", cpu |-> x.cpu, ret |-> [valid |-> TRUE, id |-> id, rsp |-> x.rsp]]

\* the scheduler state after add_new_user_task / add_new_task
Added(gs_base) ==
    /\ NEXT_TASK_ID < MaxTasks
    /\ tasks' = Append(tasks, Task(NEXT_TASK_ID, "Ready", gs_base))
    /\ NEXT_TASK_ID' = NEXT_TASK_ID + 1
    /\ spilled' = Append(spilled, 0)
    /\ lastSched' = [op |-> IF gs_base = 0 THEN "add_new_task" ELSE "add_new_user_task",
                     from |-> current_task_index, to |-> current_task_index,
                     wrmsr |-> 0]
    /\ yields' = <<>>
    /\ UNCHANGED <<current_task_index, halted>>

\* the record add_new_user_task boxes for the new task (scheduler.rs:69-74)
WithNewRecord(recs) ==
    (KgsBox(NEXT_TASK_ID) :>
        KernelGsBase(KernelStackTop(NEXT_TASK_ID), UserStackTop(NEXT_TASK_ID))) @@ recs

userRest == <<frameVars, heapVars, pageVars, ringVars, kbdVars, sysVars, tss_rsp0, hwVars>>

\* SYSCALL with GS not at a KernelGsBase record: the stub stores RSP into, and
\* loads RSP from, memory that is no record; the task does not get further.
Fault ==
    /\ pos' = [pos EXCEPT ![current_task_index + 1] = "fault"]
    /\ UNCHANGED <<cpu, kgs, spilled, lastReturn, schedVars, userRest>>

\* A user task executes SYSCALL with an id that makes no scheduler call
\* (1-3, 7-11 and the unknown ids), and the syscall returns.
UserSyscall(rsp) ==
    /\ InUserMode
    /\ LET e == SyscallEntry(cpu, kgs, rsp)
           b == Return(Running.id, e.cpu, e.kgs)
       IN  IF ~e.ok THEN Fault
           ELSE /\ kgs' = e.kgs
                /\ cpu' = b.cpu
                /\ lastReturn' = b.ret
                /\ spilled' = [spilled EXCEPT ![current_task_index + 1] = rsp]
                /\ UNCHANGED <<pos, schedVars, userRest>>

\* syscall 4: sys_add_task, then the syscall returns
UserAddTask(rsp) ==
    /\ InUserMode
    /\ NEXT_TASK_ID < MaxTasks
    /\ LET e == SyscallEntry(cpu, kgs, rsp)
           recs == WithNewRecord(e.kgs)
           b == Return(Running.id, e.cpu, recs)
       IN  IF ~e.ok THEN Fault
           ELSE /\ kgs' = recs
                /\ cpu' = b.cpu
                /\ lastReturn' = b.ret
                /\ tasks' = Append(tasks, Task(NEXT_TASK_ID, "Ready", KgsBox(NEXT_TASK_ID)))
                /\ NEXT_TASK_ID' = NEXT_TASK_ID + 1
                /\ pos' = Append(pos, "new_user")
                /\ spilled' = Append([spilled EXCEPT ![current_task_index + 1] = rsp], 0)
                /\ lastSched' = [op |-> "add_new_user_task", from |-> current_task_index,
                                 to |-> current_task_index, wrmsr |-> 0]
                /\ yields' = <<>>
                /\ UNCHANGED <<current_task_index, halted, userRest>>

\* syscall 5: sys_switch_task
UserYield(rsp) ==
    /\ InUserMode
    /\ LET e == SyscallEntry(cpu, kgs, rsp) IN
        IF ~e.ok THEN Fault
        ELSE /\ Switched("switch_task", switch_task(tasks, current_task_index),
                         "syscall", e.cpu, e.kgs, Return(Running.id, e.cpu, e.kgs))
             /\ spilled' = [spilled EXCEPT ![current_task_index + 1] = rsp]
             /\ UNCHANGED <<NEXT_TASK_ID, userRest>>

\* syscall 6: sys_terminate_task
UserExit(rsp) ==
    /\ InUserMode
    /\ LET e == SyscallEntry(cpu, kgs, rsp) IN
        IF ~e.ok THEN Fault
        ELSE /\ Switched("terminate_task", terminate_task(tasks, current_task_index),
                         "syscall", e.cpu, e.kgs, Return(Running.id, e.cpu, e.kgs))
             /\ spilled' = [spilled EXCEPT ![current_task_index + 1] = rsp]
             /\ UNCHANGED <<NEXT_TASK_ID, userRest>>

\* a kernel thread calls add_new_user_task
KernelAddUserTask ==
    /\ InKernelThread
    /\ Added(KgsBox(NEXT_TASK_ID))
    /\ pos' = Append(pos, "new_user")
    /\ kgs' = WithNewRecord(kgs)
    /\ UNCHANGED <<cpu, lastReturn, userRest>>

\* a kernel thread calls add_new_task
KernelAddTask ==
    /\ InKernelThread
    /\ Added(0)
    /\ pos' = Append(pos, "new_kernel")
    /\ UNCHANGED <<cpu, kgs, lastReturn, userRest>>

\* a kernel thread calls switch_task
KernelYield ==
    /\ InKernelThread
    /\ Switched("switch_task", switch_task(tasks, current_task_index), "kernel",
                cpu, kgs, [pos |-> "kernel", cpu |-> cpu, ret |-> NoReturn])
    /\ UNCHANGED <<NEXT_TASK_ID, spilled, userRest>>

\* a kernel thread calls terminate_task
KernelExit ==
    /\ InKernelThread
    /\ Switched("terminate_task", terminate_task(tasks, current_task_index), "kernel",
                cpu, kgs, [pos |-> "kernel", cpu |-> cpu, ret |-> NoReturn])
    /\ UNCHANGED <<NEXT_TASK_ID, spilled, userRest>>

UserNext ==
    \/ \E rsp \in UserRsps(Running.id) : UserSyscall(rsp)
    \/ \E rsp \in UserRsps(Running.id) : UserAddTask(rsp)
    \/ \E rsp \in UserRsps(Running.id) : UserYield(rsp)
    \/ \E rsp \in UserRsps(Running.id) : UserExit(rsp)
    \/ KernelAddUserTask
    \/ KernelAddTask
    \/ KernelYield
    \/ KernelExit

(***************************************************************************)
(*     THE SYNTHESIZED STACK OF A NEW USER TASK                            *)
(*     (src/src/scheduler.rs: add_new_user_task, context_switch,           *)
(*      user_task_trampoline)                                              *)
(***************************************************************************)

\* gdt.rs:6-7
USER_DATA_SEL == 27
USER_CODE_SEL == 35
\* scheduler.rs:94  the RFLAGS image of a new user task
INITIAL_RFLAGS == 514
\* the address of user_task_trampoline (scheduler.rs:129-132)
TRAMPOLINE == 1052672
\* the stack pointer of the kernel thread that calls switch_task
CALLER_RSP == 524288

\* sp = sp.sub(1); *sp = value
Push(st, value) == [sp |-> st.sp - 8, m |-> ((st.sp - 8) :> value) @@ st.m]

RECURSIVE PushAll(_, _)
PushAll(st, values) ==
    IF values = <<>> THEN st ELSE PushAll(Push(st, Head(values)), Tail(values))

\* scheduler.rs:88-97  the IRETQ frame, in the order it is pushed
IretqFrameKernelSelectors(entry_point, user_stack_bottom, stack_size) ==
    <<16, user_stack_bottom + stack_size, INITIAL_RFLAGS, 8, entry_point>>
IretqFrame(entry_point, user_stack_bottom, stack_size) ==
    <<USER_DATA_SEL, user_stack_bottom + stack_size, INITIAL_RFLAGS, USER_CODE_SEL,
      entry_point>>

\* scheduler.rs:100-112  what context_switch pops: the return address and
\* six registers
SwitchFrame == <<TRAMPOLINE, 0, 0, 0, 0, 0, 0>>

\* scheduler.rs:58-127  add_new_user_task: the stack it writes from
\* kernel_stack_top down, and Task.stack_top
add_new_user_task(m, entry_point, user_stack_bottom, stack_size, kernel_stack_bottom) ==
    LET kernel_stack_top == kernel_stack_bottom + stack_size
        st == PushAll([sp |-> kernel_stack_top, m |-> m],
                      IretqFrame(entry_point, user_stack_bottom, stack_size)
                          \o SwitchFrame)
    IN  [m |-> st.m, stack_top |-> st.sp, kernel_stack_top |-> kernel_stack_top]

\* pop reg
Pop(st) == [sp |-> st.sp + 8, m |-> st.m, value |-> st.m[st.sp]]

\* scheduler.rs:289-311  context_switch(old_stack_ptr, new_stack_ptr): push
\* r15, r14, r13, r12, rbx, rbp; save RSP; load the new RSP; pop rbp, rbx,
\* r12, r13, r14, r15; ret
context_switch(m, r, new_stack_ptr) ==
    LET saved == PushAll([sp |-> r.rsp, m |-> m],
                         <<r.r15, r.r14, r.r13, r.r12, r.rbx, r.rbp>>)
        p1 == Pop([sp |-> new_stack_ptr, m |-> saved.m])
        p2 == Pop(p1)
        p3 == Pop(p2)
        p4 == Pop(p3)
        p5 == Pop(p4)
        p6 == Pop(p5)
        p7 == Pop(p6)
    IN  [m |-> saved.m, old_stack_top |-> saved.sp,
         regs |-> [r EXCEPT !.rbp = p1.value, !.rbx = p2.value, !.r12 = p3.value,
                            !.r13 = p4.value, !.r14 = p5.value, !.r15 = p6.value,
                            !.rip = p7.value, !.rsp = p7.sp]]

\* iretq: pop RIP, CS, RFLAGS, RSP, SS
iretq(m, r) ==
    [r EXCEPT !.rip = m[r.rsp], !.cs = m[r.rsp + 8], !.rflags = m[r.rsp + 16],
              !.rsp = m[r.rsp + 24], !.ss = m[r.rsp + 32]]

\* the registers of the kernel thread that calls switch_task
CallerRegs ==
    [rsp |-> CALLER_RSP, rbp |-> 11, rbx |-> 12, r12 |-> 13, r13 |-> 14, r14 |-> 15,
     r15 |-> 16, rip |-> 0, cs |-> 8, rflags |-> 2, ss |-> 16]

\* the arguments of add_user_task and the kernel stack allocator::alloc returned
EntryPoints      == {4194304, 4198400, 5242880}
UserStackBottoms == {8388608, 9437184, 10485760}
StackSizes       == {4096, 16384, 65536}
KernelStacks     == {2097184, 3145728}

NoTask == [entry_point |-> 0, user_stack_bottom |-> 0, stack_size |-> 0,
           kernel_stack_bottom |-> 0, stack_top |-> 0, old_stack_top |-> 0]

StackIdle ==
    /\ kstack = <<>>
    /\ regs = CallerRegs
    /\ stage = "idle"
    /\ newtask = NoTask

StackInit ==
    /\ kstack = <<>>
    /\ regs = CallerRegs
    /\ stage = "args"
    /\ \E e \in EntryPoints, b \in UserStackBottoms, s \in StackSizes, k \in KernelStacks :
          newtask = [NoTask EXCEPT !.entry_point = e, !.user_stack_bottom = b,
                                   !.stack_size = s, !.kernel_stack_bottom = k]

stackRest == <<frameVars, heapVars, pageVars, ringVars, kbdVars, schedVars, sysVars,
               userVars, enumVars, ioVars>>

\* add_new_user_task builds the stack of the new task
BuildStack ==
    /\ stage = "args"
    /\ LET t == add_new_user_task(kstack, newtask.entry_point, newtask.user_stack_bottom,
                                  newtask.stack_size, newtask.kernel_stack_bottom)
       IN  /\ kstack' = t.m
           /\ newtask' = [newtask EXCEPT !.stack_top = t.stack_top]
    /\ stage' = "ready"
    /\ UNCHANGED <<regs, stackRest>>

\* the first switch_task that selects the new task: context_switch up to its ret
FirstSwitch ==
    /\ stage = "ready"
    /\ LET c == context_switch(kstack, regs, newtask.stack_top)
       IN  /\ kstack' = c.m
           /\ regs' = c.regs
           /\ newtask' = [newtask EXCEPT !.old_stack_top = c.old_stack_top]
    /\ stage' = "trampoline"
    /\ UNCHANGED stackRest

\* user_task_trampoline: swapgs; iretq
Trampoline ==
    /\ stage = "trampoline"
    /\ regs.rip = TRAMPOLINE
    /\ regs' = iretq(kstack, regs)
    /\ stage' = "user"
    /\ UNCHANGED <<kstack, newtask, stackRest>>

StackNext == BuildStack \/ FirstSwitch \/ Trampoline

(***************************************************************************)
(*     xHCI COMMANDS AND THE ENUMERATION OF A DEVICE  (src/src/xhci.rs)    *)
(*                                                                         *)
(* The keyboard of slot 1 is configured and has a report request           *)
(* outstanding; the port loop (xhci.rs:562-601) finds a second device and  *)
(* enumerates it: enable_slot, address_device, get_descriptor,             *)
(* get_config_descriptor, setup_keyboard_endpoint.  Every wait loop calls  *)
(* process_events, which is the only consumer of the event ring.           *)
(***************************************************************************)
MaxSpins       == 1     \* iterations of a control-transfer wait followed one by one
MaxEnumReports == 1     \* keyboard transfer events of slot 1 during the enumeration
MaxEnumOthers  == 1     \* port status change events during the enumeration
MaxTimeouts    == 1     \* control transfers of the enumeration that time out

SPIN_LIMIT          == 2000000  \* xhci.rs:921  timeout > 2000000
SLOT_TABLE_LEN      == 64       \* xhci.rs:193  the per-slot tables have 64 entries
TRB_SETUP_STAGE     == 2        \* xhci.rs:72
TRB_DATA_STAGE      == 3        \* xhci.rs:73
TRB_STATUS_STAGE    == 4        \* xhci.rs:74
COMPLETION_TRB_ERROR == 5       \* a non-success code of a command

\* xhci.rs:458-467  MaxSlotsEn = HCSPARAMS1 & 0xFF, any of 1..255: the values
\* followed (a slot id above 127 would not fit the 32-bit control word here)
HcsMaxSlots == {64, 127}
\* the slot ids an Enable Slot command may be answered with: 1..MaxSlotsEn
\* without slot 1 (the keyboard); the highest is followed
AssignableSlots(max_slots) == {max_slots}

\* the completion codes the controller answers a request with
CompletionCodes(step) ==
    IF step \in {"enable_slot", "address_device", "configure_endpoint"}
    THEN {COMPLETION_SUCCESS, COMPLETION_TRB_ERROR}
    ELSE {COMPLETION_SUCCESS, COMPLETION_STALL}

\* the steps in the order of the code, and how each one waits
CommandSteps == {"enable_slot", "address_device", "configure_endpoint"}
ControlSteps == {"get_device_descriptor", "get_config_header", "get_config_full",
                 "set_configuration", "set_idle", "set_protocol"}

\* What the code does when the wait loop of `step` is over, from
\* LAST_COMPLETION_CODE (cc) and LAST_SLOT_ID (sl): the next step, or "stop".
\*   xhci.rs:596-599   if slot_id > 0 { address_device }
\*   xhci.rs:862-864   code == 1 => get_descriptor
\*   xhci.rs:946-958   code == 1 => get_config_descriptor
\*   xhci.rs:983-986, 1001-1004  != 1 => return
\*   xhci.rs:1071-1074 SET_CONFIGURATION != 1 => return
\*   xhci.rs:1077-1098 SET_IDLE and SET_PROTOCOL: the code is not read
\*   xhci.rs:1164-1166 code == 1 => queue_keyboard_report_request
After(step, cc, sl) ==
    CASE step = "enable_slot" -> IF sl > 0 THEN "address_device" ELSE "stop"
      [] step = "address_device" -> IF cc = 1 THEN "get_device_descriptor" ELSE "stop"
      [] step = "get_device_descriptor" -> IF cc = 1 THEN "get_config_header" ELSE "stop"
      [] step = "get_config_header" -> IF cc # 1 THEN "stop" ELSE "get_config_full"
      [] step = "get_config_full" -> IF cc # 1 THEN "stop" ELSE "set_configuration"
      [] step = "set_configuration" -> IF cc # 1 THEN "stop" ELSE "set_idle"
      [] step = "set_idle" -> "set_protocol"
      [] step = "set_protocol" -> "configure_endpoint"
      [] OTHER -> IF cc = 1 THEN "report_request" ELSE "stop"

\* xhci.rs:916-925  `timeout += 1; if timeout > 2000000 { break }`
TimedOutNever(timeout) == FALSE
TimedOut(timeout) == timeout > SPIN_LIMIT

\* xhci.rs:882-910  the TRBs of a control transfer: Setup, Data (when
\* data_len > 0) and Status; `request` stands for the 8 setup bytes
HasData(step) == step \in {"get_device_descriptor", "get_config_header", "get_config_full"}
SetupTrb(step, request) ==
    Trb(request, 8, TRB_SETUP_STAGE * TRB_TYPE_SHIFT + 64
                    + (IF HasData(step) THEN 3 * 65536 ELSE 0))
DataTrb(len) == Trb(0, len, TRB_DATA_STAGE * TRB_TYPE_SHIFT + 65536)
StatusTrb(step) ==
    Trb(0, 0, TRB_STATUS_STAGE * TRB_TYPE_SHIFT + (IF HasData(step) THEN 0 ELSE 65536) + 32)
ControlTrbs(step) ==
    CASE step = "get_device_descriptor" -> <<SetupTrb(step, 6), DataTrb(18), StatusTrb(step)>>
      [] step = "get_config_header" -> <<SetupTrb(step, 6), DataTrb(9), StatusTrb(step)>>
      [] step = "get_config_full" -> <<SetupTrb(step, 6), DataTrb(34), StatusTrb(step)>>
      [] step = "set_configuration" -> <<SetupTrb(step, 9), StatusTrb(step)>>
      [] step = "set_idle" -> <<SetupTrb(step, 10), StatusTrb(step)>>
      [] OTHER -> <<SetupTrb(step, 11), StatusTrb(step)>>

RECURSIVE EnqueueAll(_, _)
EnqueueAll(r, list) ==
    IF list = <<>> THEN r
    ELSE LET q == RingEnqueue(r.ring, r.trbs, Head(list))
         IN  EnqueueAll([ring |-> q.ring, trbs |-> q.trbs], Tail(list))

\* the indices of the per-slot tables a step of the driver uses for slot_id:
\* every step but enable_slot reads or writes entry slot_id - 1
\* (xhci.rs:775, 795, 802, 879, 1041, 1103, 1108, 1119, 1183, 1187)
StepIndices(step, slot) == IF step = "enable_slot" THEN {} ELSE {slot - 1}

\* xhci.rs:639-662  process_events indexes KEYBOARD_TRANSFER_RINGS (and, for a
\* keyboard report, the report tables) with slot_id - 1 of each Transfer Event
EventIndices(ring_mem, h) ==
    {slot_id(ring_mem[h[k].slot]) - 1 :
        k \in {i \in 1..Len(h) : trb_type(ring_mem[h[i].slot]) = TRB_TRANSFER_EVENT}}

NoEnum == [next |-> "none", phase |-> "idle", slot_id |-> 0, timeout |-> 0, max_slots |-> 0,
           own |-> FALSE, set |-> FALSE, first |-> 0, count |-> 0]

EnumIdle ==
    /\ enum = NoEnum
    /\ hcq = <<>>
    /\ posted = <<>>
    /\ ep0 = [ring |-> [kind |-> "none", size |-> 0, enqueue_index |-> 0,
                        cycle_bit |-> FALSE],
              trbs |-> <<>>]
    /\ issued = <<>>
    /\ indexed = {}

\* After init (MaxSlotsEn programmed, xhci.rs:458-467) with the keyboard of
\* slot 1 set up, at the call of enable_slot for the second device.
EnumInit ==
    /\ DriverStart([d |-> 0, lap |-> 1, n |-> 0, tl |-> 0])
    /\ \E m \in HcsMaxSlots :
          enum = [NoEnum EXCEPT !.next = "enable_slot", !.phase = "issue", !.max_slots = m]
    /\ hcq = <<>>
    /\ posted = <<>>
    /\ ep0 = RingNew("transfer", 4096)
    /\ issued = <<>>
    /\ indexed = {}

kbdButCodes == <<er, erdp, event_ring_cycle_bit, hc, dev, report_buf, prev_report,
                 KEYBOARD_BUFFER, KBD_BUF_HEAD, KBD_BUF_TAIL, handled, lastReport,
                 runs, fifo, preload, lastRead, kbdOp, counts>>
enumRest == <<frameVars, heapVars, pageVars, schedVars, sysVars, userVars, stackVars,
              ioVars>>

\* The driver issues the next step: the table entries it uses, the TRBs it
\* enqueues, LAST_COMPLETION_CODE = 0 (and LAST_SLOT_ID = 0 in enable_slot,
\* xhci.rs:745-746); queue_keyboard_report_request does not wait.
Issue ==
    /\ enum.phase = "issue"
    /\ LET step == enum.next
           q == IF step \in ControlSteps THEN EnqueueAll(ep0, ControlTrbs(step)) ELSE ep0
       IN  /\ indexed' = indexed \cup StepIndices(step, enum.slot_id)
           /\ ep0' = q
           /\ IF step = "report_request"
              THEN /\ enum' = [enum EXCEPT !.phase = "end"]
                   /\ issued' = Append(issued, [step |-> step, code |-> 0, slot |-> 0,
                                                own |-> TRUE, same |-> TRUE,
                                                timed_out |-> FALSE])
                   /\ UNCHANGED <<hcq, LAST_COMPLETION_CODE, LAST_SLOT_ID>>
              ELSE /\ enum' = [enum EXCEPT !.phase = "wait", !.timeout = 0, !.own = FALSE,
                                           !.set = FALSE,
                                           !.first = ep0.ring.enqueue_index,
                                           !.count = IF step \in ControlSteps
                                                     THEN Len(ControlTrbs(step)) ELSE 0]
                   /\ hcq' = Append(hcq, [step |-> step, slot |-> enum.slot_id])
                   /\ LAST_COMPLETION_CODE' = 0
                   /\ LAST_SLOT_ID' = IF step = "enable_slot" THEN 0 ELSE LAST_SLOT_ID
                   /\ UNCHANGED issued
    /\ UNCHANGED <<posted, kbdButCodes, ringVars, enumRest>>

\* the event the controller posted for `step`, if any
PostedFor(step) == {k \in 1..Len(posted) : posted[k].step = step}

\* xhci.rs:635-638, 704-706  the events that write LAST_COMPLETION_CODE
WritesCode(event) ==
    trb_type(event) \in {TRB_COMMAND_COMPLETION_EVENT, TRB_TRANSFER_EVENT}

\* the event ring holds an event process_events has not consumed
EventPending == Owned(er[EventIndex(erdp - (erdp % 16))], event_ring_cycle_bit)

\* One iteration of the wait loop of the current step: process_events, and
\* in control_transfer the timeout count (xhci.rs:916-925).
WaitLoop ==
    /\ enum.phase = "wait"
    /\ LAST_COMPLETION_CODE = 0
    /\ enum.next \in ControlSteps =>
          \/ enum.timeout < MaxSpins
          \/ enum.timeout >= SPIN_LIMIT
          \/ EventPending
    /\ RunProcessEvents
    /\ indexed' = indexed \cup EventIndices(er, handled')
    /\ enum' = [enum EXCEPT
                  !.own = @ \/ \E k \in PostedFor(enum.next) :
                                  \E i \in 1..Len(handled') : handled'[i].slot = posted[k].at,
                  !.set = @ \/ \E i \in 1..Len(handled') : WritesCode(er[handled'[i].slot]),
                  !.timeout = IF enum.next \in ControlSteps THEN @ + 1 ELSE @,
                  !.phase = IF enum.next \in ControlSteps /\ TimedOut(enum.timeout + 1)
                            THEN "timeout" ELSE "wait"]
    /\ UNCHANGED <<hcq, posted, ep0, issued, enumRest>>

\* The iterations of a control-transfer wait in which the controller posts
\* nothing: each one finds no event and adds one to the count.
SpinQuiet ==
    /\ enum.phase = "wait"
    /\ enum.next \in ControlSteps
    /\ LAST_COMPLETION_CODE = 0
    /\ enum.timeout = MaxSpins
    /\ Len(SelectSeq(issued, LAMBDA x : x.timed_out)) < MaxTimeouts
    /\ ~EventPending
    /\ enum' = [enum EXCEPT !.timeout = SPIN_LIMIT]
    /\ UNCHANGED <<hcq, posted, ep0, issued, indexed, kbdVars, ringVars, enumRest>>

\* The wait loop is over (LAST_COMPLETION_CODE # 0, or the timeout break):
\* the code after it decides on the next step.
LoopExit ==
    /\ \/ enum.phase = "wait" /\ LAST_COMPLETION_CODE # 0
       \/ enum.phase = "timeout"
    /\ LET step == enum.next
           nxt == After(step, LAST_COMPLETION_CODE, LAST_SLOT_ID)
       IN  /\ issued' = Append(issued,
                   [step |-> step, code |-> LAST_COMPLETION_CODE, slot |-> LAST_SLOT_ID,
                    own |-> enum.own,
                    same |-> \E k \in PostedFor(step) :
                                 /\ posted[k].code = LAST_COMPLETION_CODE
                                 /\ step \in CommandSteps => posted[k].slot = LAST_SLOT_ID,
                    timed_out |-> (enum.phase = "timeout")])
           /\ enum' = [enum EXCEPT !.next = nxt,
                                   !.phase = IF nxt = "stop" THEN "end" ELSE "issue",
                                   !.slot_id = IF step = "enable_slot" THEN LAST_SLOT_ID ELSE @]
    /\ UNCHANGED <<hcq, posted, ep0, indexed, kbdVars, ringVars, enumRest>>

\* The controller answers the oldest request it has: a Command Completion
\* Event (for Enable Slot with the slot it assigned, or slot 0 on failure),
\* or a Transfer Event for the Status TRB of a control transfer.
Complete(code, assigned) ==
    /\ hcq # <<>>
    /\ code \in CompletionCodes(Head(hcq).step)
    /\ LET r == Head(hcq)
           slot == IF r.step = "enable_slot"
                   THEN (IF code = COMPLETION_SUCCESS THEN assigned ELSE 0)
                   ELSE r.slot
           ev == IF r.step \in CommandSteps
                 THEN [type |-> TRB_COMMAND_COMPLETION_EVENT, param |-> 0,
                       code |-> code, slot |-> slot]
                 ELSE [type |-> TRB_TRANSFER_EVENT, param |-> EP0_TR_BUFFER,
                       code |-> code, slot |-> slot]
       IN  /\ PostTrb(ev)
           /\ posted' = Append(posted, [step |-> r.step, at |-> hc.enq, code |-> code,
                                        slot |-> slot])
    /\ hcq' = Tail(hcq)
    /\ UNCHANGED <<enum, ep0, issued, indexed, dev, report_buf, driverVars, kbdOp, counts,
                   ringVars, enumRest>>

\* The keyboard of slot 1 and the root hub post their events while the
\* driver spins in the wait loop of Configure Endpoint (an event posted
\* between two calls of process_events is seen by the later call, whenever
\* it was posted).
ForeignEventSteps == {"configure_endpoint"}
Spinning == enum.phase = "wait" /\ enum.next \in ForeignEventSteps

EnumKeyboardTransfer ==
    /\ Spinning
    /\ counts.reports < MaxEnumReports
    /\ KeyboardTransfer(Report(4, 0, 0), COMPLETION_SUCCESS)
EnumPortStatusChange ==
    /\ Spinning
    /\ counts.others < MaxEnumOthers
    /\ PostEvent([type |-> TRB_PORT_STATUS_CHANGE_EVENT, param |-> SHIFT24, code |-> 1,
                  slot |-> 0])

EnumNext ==
    \/ Issue
    \/ WaitLoop
    \/ SpinQuiet
    \/ LoopExit
    \/ \E code \in {COMPLETION_SUCCESS, COMPLETION_TRB_ERROR, COMPLETION_STALL} :
          \E a \in AssignableSlots(enum.max_slots) : Complete(code, a)
    \/ EnumKeyboardTransfer
    \/ EnumPortStatusChange

(***************************************************************************)
(*                 NVMe COMPLETION QUEUE  (nvme.rs)                        *)
(*                                                                         *)
(* nvme_wait_for_completion polls the completion queue entry at q.head;    *)
(* the controller writes entries at its own tail with its phase tag in     *)
(* bit 0 of the status.                                                    *)
(***************************************************************************)
MaxCompletions == 4     \* completion entries the controller posts
MaxWaits       == 3     \* calls of nvme_wait_for_completion

NVME_QUEUE_SIZE == 64   \* nvme.rs:364 q_size (admin queue), nvme.rs:275 (I/O queue)

\* the command ids of the commands in flight, and the status codes (the
\* status field above the phase bit) the controller answers with
CommandIds  == {1, 2}
StatusCodes == {0, 1}

\* nvme.rs:85-92  NvmeCQEntry: the fields the wait reads
CqEntry(command_id, status) == [command_id |-> command_id, status |-> status]

\* nvme.rs:211  (entry.status & 0x1) == q.phase
IsNewAlways(entry, phase) == TRUE
IsNew(entry, phase) == (entry.status % 2) = phase

\* nvme.rs:215-219, 226-230  q.head += 1; at q.size head is 0 and the phase flips
AdvanceHead(q) ==
    LET h == q.head + 1
    IN  IF h >= q.size
        THEN [q EXCEPT !.head = 0, !.phase = IF q.phase = 1 THEN 0 ELSE 1]
        ELSE [q EXCEPT !.head = h]

\* nvme.rs:206-236  one iteration of the loop of nvme_wait_for_completion:
\* the queue after it, the value written to the head doorbell (if any), and
\* whether the function returns
nvme_wait_iteration(q, cq, cid) ==
    LET entry == cq[q.head]
    IN  IF IsNew(entry, q.phase)
        THEN LET q1 == AdvanceHead(q)
             IN  [q |-> q1, written |-> <<q1.head>>, returns |-> (entry.command_id = cid)]
        ELSE [q |-> q, written |-> <<>>, returns |-> FALSE]

NvmeIdle ==
    /\ nvq = [head |-> 0, size |-> 0, phase |-> 1]
    /\ ncq = <<>>
    /\ nctl = [tail |-> 0, phase |-> 1, posted |-> 0, start |-> 0]
    /\ ndb = <<>>
    /\ nwait = [pc |-> "none", cid |-> 0, calls |-> 0, iter |-> 0]

\* The queue with every posted entry consumed, in its first lap (expected
\* phase 1: nvme.rs:386, 276; the buffer was zeroed, nvme.rs:369-370) or in
\* its second (expected phase 0), at head h: the entries before h were
\* written in this lap, the others in the lap before.
StartHeads == {0, NVME_QUEUE_SIZE - 2, NVME_QUEUE_SIZE - 1}
QueueAt(h, lap) ==
    [i \in 0..(NVME_QUEUE_SIZE - 1) |->
        IF lap = 1
        THEN (IF i < h THEN CqEntry(1, 1) ELSE CqEntry(0, 0))
        ELSE (IF i < h THEN CqEntry(1, 0) ELSE CqEntry(1, 1))]

NvmeInit ==
    \E h \in StartHeads, lap \in {1, 2} :
        /\ nvq = [head |-> h, size |-> NVME_QUEUE_SIZE, phase |-> IF lap = 1 THEN 1 ELSE 0]
        /\ ncq = QueueAt(h, lap)
        /\ nctl = [tail |-> h, phase |-> IF lap = 1 THEN 1 ELSE 0, posted |-> 0, start |-> h]
        /\ ndb = <<>>
        /\ nwait = [pc |-> "idle", cid |-> 0, calls |-> 0, iter |-> 0]

nvmeRest == <<frameVars, heapVars, pageVars, ringVars, kbdVars, schedVars, sysVars,
              userVars, stackVars, enumVars, ps2Vars>>

\* a caller waits for the completion of command `cid`
NvmeWaitCall(cid) ==
    /\ nwait.pc = "idle"
    /\ nwait.calls < MaxWaits
    /\ nwait' = [nwait EXCEPT !.pc = "loop", !.cid = cid, !.calls = @ + 1]
    /\ UNCHANGED <<nvq, ncq, nctl, ndb, nvmeRest>>

\* one iteration of the loop
NvmeWaitIteration ==
    /\ nwait.pc = "loop"
    /\ LET r == nvme_wait_iteration(nvq, ncq, nwait.cid)
       IN  /\ nvq' = r.q
           /\ ndb' = ndb \o r.written
           /\ nwait' = [nwait EXCEPT !.pc = IF r.returns THEN "idle" ELSE "loop",
                                     !.iter = (@ + 1) % 2]
    /\ UNCHANGED <<ncq, nctl, nvmeRest>>

\* the head the controller knows: the last value written to the doorbell
DoorbellHead == IF ndb = <<>> THEN nctl.start ELSE ndb[Len(ndb)]

\* The controller posts a completion entry at its tail, with its phase tag,
\* unless that would fill the queue up to the head it knows.
NvmePost(cid, code) ==
    /\ nctl.posted < MaxCompletions
    /\ (nctl.tail + 1) % NVME_QUEUE_SIZE # DoorbellHead
    /\ ncq' = [ncq EXCEPT ![nctl.tail] = CqEntry(cid, 2 * code + nctl.phase)]
    /\ nctl' = [nctl EXCEPT !.tail = (@ + 1) % NVME_QUEUE_SIZE,
                            !.phase = IF nctl.tail + 1 = NVME_QUEUE_SIZE THEN 1 - @ ELSE @,
                            !.posted = @ + 1]
    /\ UNCHANGED <<nvq, ndb, nwait, nvmeRest>>

NvmeNext ==
    \/ \E cid \in CommandIds : NvmeWaitCall(cid)
    \/ NvmeWaitIteration
    \/ \E cid \in CommandIds, code \in StatusCodes : NvmePost(cid, code)

(***************************************************************************)
(*                  PS/2 KEY RING  (keyboard.rs)                           *)
(*                                                                         *)
(* pop_key runs in a task; the keyboard interrupt (IRQ 1, interrupts.rs    *)
(* :240-243) runs handle_interrupt, and with it push_key, to completion    *)
(* between any two memory accesses of pop_key.  The ring and its indices   *)
(* are plain `static mut`: the build may emit the load of the key and the  *)
(* store of READ_IDX in either order.                                      *)
(***************************************************************************)
MaxPushes == 3      \* keyboard interrupts that carry a key
MaxPops   == 2      \* calls of pop_key

BUFFER_SIZE == 256  \* keyboard.rs:37

\* keyboard.rs:4-35  SCAN_CODE_MAP (entry i of the array is element i + 1)
SCAN_CODE_MAP ==
<<
    0, 27, 49, 50, 51, 52, 53, 54, 55, 56, 57, 48, 45, 61, 8,
    9, 113, 119, 101, 114, 116, 121, 117, 105, 111, 112, 91, 93, 10, 0,
    97, 115, 100, 102, 103, 104, 106, 107, 108, 59, 39, 96, 0, 92, 122,
    120, 99, 118, 98, 110, 109, 44, 46, 47, 0, 42, 0, 32, 0, 0,
    0, 0, 0, 0, 0, 0, 0, 0, 0, 0, 0, 0, 0, 0, 45,
    0, 0, 0, 43, 0, 0, 0, 0, 0, 0, 0, 0, 0, 0, 0>>

\* the scancodes the keyboard sends: 'a', 'b', Control (no ASCII), the
\* release of 'a', and one beyond the table
ScanCodes == {30, 48, 29, 158, 90}

\* keyboard.rs:45-52  the ASCII handle_interrupt pushes for a scancode, 0
\* when it pushes nothing
Ascii(scancode) ==
    IF (scancode \div 128) % 2 = 0 /\ scancode < Len(SCAN_CODE_MAP)
    THEN SCAN_CODE_MAP[scancode + 1]
    ELSE 0

\* keyboard.rs:59-60  next_write != READ_IDX
Ps2HasRoomAlways(next_write, read_idx) == TRUE
Ps2HasRoom(next_write, read_idx) == next_write # read_idx

\* keyboard.rs:57-66  push_key
keyboard_push_key(buf, write_idx, read_idx, c) ==
    LET next_write == (write_idx + 1) % BUFFER_SIZE
    IN  IF Ps2HasRoom(next_write, read_idx)
        THEN [buf |-> [buf EXCEPT ![write_idx] = c], write_idx |-> next_write,
              stored |-> TRUE]
        ELSE [buf |-> buf, write_idx |-> write_idx, stored |-> FALSE]

Ps2Idle ==
    /\ KEYBUFFER = <<>>
    /\ WRITE_IDX = 0
    /\ READ_IDX = 0
    /\ popper = [pc |-> "none", r |-> 0, w |-> 0, c |-> 0, calls |-> 0]
    /\ ps2 = [order |-> "none", fill |-> 0, taken |-> 0, asked |-> 0]
    /\ keysStored = <<>>
    /\ keysPopped = <<>>
    /\ keysDropped = <<>>

\* The ring at a moment when pop_key is not running: READ_IDX at r0 and
\* `fill` keys stored and not yet popped (at most BUFFER_SIZE - 1).  The
\* slots outside hold zero (never written) or a key popped before.
StartReads == {0, BUFFER_SIZE - 1}
StartFills == {0, 1, BUFFER_SIZE - 2, BUFFER_SIZE - 1}
KeyAt(k) == IF k % 2 = 0 THEN 97 ELSE 98
OldKey(r0) == IF r0 = 0 THEN 0 ELSE 99

Ps2Init ==
    \E r0 \in StartReads, fill \in StartFills, order \in {"load_store", "store_load"} :
        /\ KEYBUFFER = [i \in 0..(BUFFER_SIZE - 1) |->
                          LET k == (i + BUFFER_SIZE - r0) % BUFFER_SIZE
                          IN  IF k < fill THEN KeyAt(k) ELSE OldKey(r0)]
        /\ WRITE_IDX = (r0 + fill) % BUFFER_SIZE
        /\ READ_IDX = r0
        /\ popper = [pc |-> "idle", r |-> 0, w |-> 0, c |-> 0, calls |-> 0]
        /\ ps2 = [order |-> order, fill |-> fill, taken |-> 0, asked |-> 0]
        /\ keysStored = [k \in 1..fill |-> KeyAt(k - 1)]
        /\ keysPopped = <<>>
        /\ keysDropped = <<>>

ps2Rest == <<frameVars, heapVars, pageVars, ringVars, kbdVars, schedVars, sysVars,
             userVars, stackVars, enumVars, nvmeVars>>

\* keyboard.rs:43-55, interrupts.rs:240-243  the keyboard interrupt
HandleInterrupt(scancode) ==
    /\ Ascii(scancode) # 0 => ps2.asked < MaxPushes
    /\ IF Ascii(scancode) = 0
       THEN UNCHANGED <<KEYBUFFER, WRITE_IDX, ps2, keysStored, keysDropped>>
       ELSE LET p == keyboard_push_key(KEYBUFFER, WRITE_IDX, READ_IDX, Ascii(scancode))
            IN  /\ KEYBUFFER' = p.buf
                /\ WRITE_IDX' = p.write_idx
                /\ ps2' = [ps2 EXCEPT !.asked = @ + 1]
                /\ keysStored' = IF p.stored THEN Append(keysStored, Ascii(scancode))
                                 ELSE keysStored
                /\ keysDropped' = IF p.stored THEN keysDropped
                                  ELSE Append(keysDropped,
                                              [key |-> Ascii(scancode),
                                               held |-> Len(keysStored) - ps2.taken])
    /\ UNCHANGED <<READ_IDX, popper, keysPopped, ps2Rest>>

\* keyboard.rs:68-78  pop_key, one memory access at a time.
\* `READ_IDX == WRITE_IDX`: the load of READ_IDX (only pop_key writes it, so
\* the later uses of READ_IDX see the same value)
PopReadR ==
    /\ popper.pc = "idle"
    /\ popper.calls < MaxPops
    /\ popper' = [popper EXCEPT !.pc = "read_w", !.r = READ_IDX, !.calls = @ + 1]
    /\ UNCHANGED <<KEYBUFFER, WRITE_IDX, READ_IDX, ps2, keysStored, keysPopped,
                   keysDropped, ps2Rest>>

\* the load of WRITE_IDX and the comparison: None when the two are equal
PopReadW ==
    /\ popper.pc = "read_w"
    /\ popper' = [popper EXCEPT
                    !.w = WRITE_IDX,
                    !.pc = IF popper.r = WRITE_IDX THEN "idle"
                           ELSE IF ps2.order = "load_store" THEN "load" ELSE "store"]
    /\ UNCHANGED <<KEYBUFFER, WRITE_IDX, READ_IDX, ps2, keysStored, keysPopped,
                   keysDropped, ps2Rest>>

\* `let c = KEYBUFFER[READ_IDX]`; when it is the last access, Some(c) returns
PopLoad ==
    /\ popper.pc = "load"
    /\ LET c == KEYBUFFER[popper.r]
           last == ps2.order = "store_load"
       IN  /\ popper' = [popper EXCEPT !.c = c, !.pc = IF last THEN "idle" ELSE "store"]
           /\ keysPopped' = IF last THEN Append(keysPopped, c) ELSE keysPopped
    /\ UNCHANGED <<KEYBUFFER, WRITE_IDX, READ_IDX, ps2, keysStored, keysDropped, ps2Rest>>

\* `READ_IDX = (READ_IDX + 1) % BUFFER_SIZE`; when it is the last access,
\* Some(c) returns
PopStore ==
    /\ popper.pc = "store"
    /\ READ_IDX' = (popper.r + 1) % BUFFER_SIZE
    /\ ps2' = [ps2 EXCEPT !.taken = @ + 1]
    /\ LET last == ps2.order = "load_store"
       IN  /\ popper' = [popper EXCEPT !.pc = IF last THEN "idle" ELSE "load"]
           /\ keysPopped' = IF last THEN Append(keysPopped, popper.c) ELSE keysPopped
    /\ UNCHANGED <<KEYBUFFER, WRITE_IDX, keysStored, keysDropped, ps2Rest>>

Ps2Next ==
    \/ \E scancode \in ScanCodes : HandleInterrupt(scancode)
    \/ PopReadR
    \/ PopReadW
    \/ PopLoad
    \/ PopStore

(***************************************************************************)
(*                           SPECIFICATIONS                                *)
(***************************************************************************)
\* the parts of the kernel a specification does not exercise stay as booted
IoIdle == NvmeIdle /\ Ps2Idle
HwIdle == StackIdle /\ EnumIdle /\ IoIdle

SpecHeapInit   == HeapInit /\ FrameIdle /\ PagingIdle /\ RingIdle /\ KbdIdle /\ SchedIdle /\ SysIdle /\ UserIdle /\ HwIdle
SpecFrameInit  == FrameInit /\ HeapIdle /\ PagingIdle /\ RingIdle /\ KbdIdle /\ SchedIdle /\ SysIdle /\ UserIdle /\ HwIdle
SpecPagingInit == PagingInit /\ HeapIdle /\ RingIdle /\ KbdIdle /\ SchedIdle /\ SysIdle /\ UserIdle /\ HwIdle
SpecRingInit   == RingInit /\ FrameIdle /\ HeapIdle /\ PagingIdle /\ KbdIdle /\ SchedIdle /\ SysIdle /\ UserIdle /\ HwIdle
SpecKbdInit    == KbdInit /\ FrameIdle /\ HeapIdle /\ PagingIdle /\ SchedIdle /\ SysIdle /\ UserIdle /\ HwIdle
SpecEventsInit == EventsInit /\ FrameIdle /\ HeapIdle /\ PagingIdle /\ SchedIdle /\ SysIdle /\ UserIdle /\ HwIdle
SpecSchedInit  == SchedInit /\ FrameIdle /\ HeapIdle /\ PagingIdle /\ RingIdle /\ KbdIdle /\ SysIdle /\ UserIdle /\ HwIdle
SpecSyscallInit == SyscallInit /\ FrameIdle /\ PagingIdle /\ RingIdle /\ KbdIdle /\ UserIdle /\ HwIdle
SpecStackInit  == StackInit /\ FrameIdle /\ HeapIdle /\ PagingIdle /\ RingIdle /\ KbdIdle /\ SchedIdle /\ SysIdle /\ UserIdle /\ EnumIdle /\ IoIdle
SpecEnumInit   == EnumInit /\ FrameIdle /\ HeapIdle /\ PagingIdle /\ SchedIdle /\ SysIdle /\ UserIdle /\ StackIdle /\ IoIdle
SpecNvmeInit   == NvmeInit /\ FrameIdle /\ HeapIdle /\ PagingIdle /\ RingIdle /\ KbdIdle /\ SchedIdle /\ SysIdle /\ UserIdle /\ StackIdle /\ EnumIdle /\ Ps2Idle
SpecPs2Init    == Ps2Init /\ FrameIdle /\ HeapIdle /\ PagingIdle /\ RingIdle /\ KbdIdle /\ SchedIdle /\ SysIdle /\ UserIdle /\ StackIdle /\ EnumIdle /\ NvmeIdle
SpecUserInit   == UserInit /\ FrameIdle /\ HeapIdle /\ PagingIdle /\ RingIdle /\ KbdIdle /\ SysIdle /\ HwIdle

SpecHeap   == SpecHeapInit /\ [][HeapNext]_vars
SpecFrame  == SpecFrameInit /\ [][FrameNext]_vars
SpecPaging == SpecPagingInit /\ [][PagingNext]_vars
SpecRing   == SpecRingInit /\ [][RingNext]_vars
SpecKbd    == SpecKbdInit /\ [][KbdNext]_vars
SpecEvents == SpecEventsInit /\ [][EventsNext]_vars
SpecSched  == SpecSchedInit /\ [][SchedNext]_vars
SpecSyscall == SpecSyscallInit /\ [][SyscallNext]_vars
SpecUser   == SpecUserInit /\ [][UserNext]_vars
SpecStack  == SpecStackInit /\ [][StackNext]_vars
SpecEnum   == SpecEnumInit /\ [][EnumNext]_vars
SpecNvme   == SpecNvmeInit /\ [][NvmeNext]_vars
SpecPs2    == SpecPs2Init /\ [][Ps2Next]_vars

\* The scheduler with a running task that always eventually yields or exits:
\* a call that changes scheduler state cannot stay possible forever without
\* being made.
SpecSchedLive ==
    SpecSchedInit /\ [][SchedNext]_vars /\ WF_vars(SwitchTask \/ TerminateTask)

(***************************************************************************)
(*                     PROPERTIES OF THE KERNEL HEAP                       *)
(***************************************************************************)

HeaderWritten(m, b) ==
    \A o \in {OFF_SIZE, OFF_NEXT, OFF_PREV, OFF_FREE} : Written(m, b + o)

\* The block list: the addresses met walking the next pointers from b.
RECURSIVE Walk(_, _, _)
Walk(m, b, fuel) ==
    IF b = NULL \/ fuel = 0 \/ ~HeaderWritten(m, b) THEN <<>>
    ELSE <<b>> \o Walk(m, BlockNext(m, b), fuel - 1)

BlockList(m, hd) == Walk(m, hd, HeapWords)

\* What the allocator's state is to an observer: the blocks in list order,
\* each with its address, size and free flag.
BlockView(m, hd) ==
    LET bl == BlockList(m, hd) IN
    [i \in 1..Len(bl) |->
        [addr |-> bl[i], size |-> BlockSize(m, bl[i]), free |-> BlockFree(m, bl[i])]]

Blocks == BlockList(mem, head)

\* The content of the whole words of the n bytes at p (unknown if unwritten)
Content(m, p, n) ==
    [x \in PayloadWords(p, n) |-> IF Written(m, x) THEN m[x] ELSE None]

SameLiveContents(m1, m2) ==
    \A i \in 1..Len(live) : Content(m1, live[i].p, live[i].n) = Content(m2, live[i].p, live[i].n)

\* C1: after init and any sequence of alloc/dealloc/realloc calls, no two
\* blocks that are adjacent in the block list are both marked free.
C1_NoAdjacentFree ==
    \A i \in 1..Len(Blocks) - 1 :
        ~(BlockFree(mem, Blocks[i]) /\ BlockFree(mem, Blocks[i + 1]))

\* A free has just merged the freed block with both neighbours: the heap is
\* one free block again after at least two allocations.
C1_Witness ==
    /\ lastOp.op = "dealloc" /\ ~lastOp.dbl
    /\ calls >= 4
    /\ Len(Blocks) = 1
    /\ BlockFree(mem, Blocks[1])

\* C2: for every block b of the list, b.next is null or lies at
\* addr(b) + header_size + b.size, and b.next.prev is b.
C2_Tiling ==
    /\ Len(Blocks) >= 1
    /\ \A i \in 1..Len(Blocks) :
        LET b == Blocks[i] IN
        \/ BlockNext(mem, b) = NULL
        \/ /\ BlockNext(mem, b) = b + HEAP_BLOCK_SIZE + BlockSize(mem, b)
           /\ HeaderWritten(mem, BlockNext(mem, b))
           /\ BlockPrev(mem, BlockNext(mem, b)) = b

\* Three blocks tile the heap after a block in the middle was split off and
\* a free block was reused.
C2_Witness ==
    /\ Len(Blocks) >= 3
    /\ lastOp.op = "alloc" /\ lastOp.ret # NULL
    /\ stale # {}

\* C3: every live pointer p returned by alloc(n, a) is a multiple of a; the
\* word before p holds the address b of a reserved block of the list, and
\* the back-pointer word and the n bytes at p lie inside b's payload:
\* b + header_size <= p - word and p + n <= b + header_size + b.size.
C3_AlignedInsideBlock ==
    \A i \in 1..Len(live) :
        LET p == live[i].p
            b == BackPointer(mem, p)
        IN  /\ p # NULL
            /\ p % live[i].a = 0
            /\ Written(mem, p - WORD)
            /\ \E k \in 1..Len(Blocks) : Blocks[k] = b
            /\ ~BlockFree(mem, b)
            /\ b + HEAP_BLOCK_SIZE <= p - WORD
            /\ b + HEAP_BLOCK_SIZE <= p
            /\ b + HEAP_BLOCK_SIZE + BlockSize(mem, b) >= p + live[i].n

\* An allocation with alignment 64 was just returned, with padding between
\* the block's header and the back-pointer word.
C3_Witness ==
    /\ lastOp.op = "alloc" /\ lastOp.ret # NULL /\ lastOp.a = 64
    /\ BackPointer(mem, lastOp.ret) + HEAP_BLOCK_SIZE < lastOp.ret - WORD
    /\ Len(live) >= 2

\* C4: in every reachable heap state, for every layout for which alloc
\* succeeds, dealloc(alloc(n, a)) gives back the same blocks with the same
\* sizes and free flags, and leaves the contents of the live allocations
\* as they were.
C4_AllocDeallocRoundTrip ==
    \A l \in Layouts :
        LET r == KernelAlloc(mem, head, l[1], l[2]) IN
        r.ret # NULL =>
            LET m2 == KernelDealloc(r.mem, r.ret) IN
            /\ BlockView(m2, head) = BlockView(mem, head)
            /\ SameLiveContents(m2, mem)

\* dealloc was just called on the pointer the previous call, an alloc that
\* split a block, returned, with another allocation live and written.
C4_Witness ==
    /\ lastOp.op = "dealloc" /\ lastOp.fresh
    /\ Len(live) >= 1
    /\ \E i \in 1..Len(live) : live[i].n >= WORD /\ Written(mem, live[i].p)

\* init(0x200000, 0x100000); a = alloc(64,16); b = alloc(128,64); free(a);
\* c = alloc(64,16)
Scenario ==
    LET s0 == init(2097152, 1048576)
        ra == KernelAlloc(s0.mem, s0.head, 64, 16)
        rb == KernelAlloc(ra.mem, s0.head, 128, 64)
        mf == KernelDealloc(rb.mem, ra.ret)
        rc == KernelAlloc(mf, s0.head, 64, 16)
    IN  [a |-> ra.ret, b |-> rb.ret, c |-> rc.ret]

ScenarioHolds ==
    /\ Scenario.a # NULL /\ Scenario.b # NULL
    /\ Scenario.a = Scenario.c
    /\ Scenario.b % 64 = 0
    /\ Scenario.a % 16 = 0

\* C5 as stated: if a = alloc(n, al) is freed while the allocations made
\* after it are still live, the next alloc(n, al) returns a again.
C5_Original ==
    (/\ lastOp.op = "dealloc" /\ ~lastOp.dbl
     /\ lastOp.by = "alloc" /\ lastOp.after >= 1 /\ lastOp.later)
        => KernelAlloc(mem, head, lastOp.n, lastOp.a).ret = lastOp.ptr

\* C5 (amended): if a = alloc(n, al) is freed and no other allocation was
\* freed or reallocated between that alloc and the free, the next
\* alloc(n, al) succeeds and returns a again; and the scenario
\* init(0x200000, 0x100000); a = alloc(64,16); b = alloc(128,64); free(a);
\* c = alloc(64,16) gives a == c, b % 64 == 0, a % 16 == 0.
C5_ReuseAfterFree ==
    /\ (lastOp.op = "dealloc" /\ ~lastOp.dbl /\ lastOp.by = "alloc" /\ lastOp.clean)
           => /\ KernelAlloc(mem, head, lastOp.n, lastOp.a).ret # NULL
              /\ KernelAlloc(mem, head, lastOp.n, lastOp.a).ret = lastOp.ptr
    /\ ScenarioHolds

\* The first of two live allocations was just freed, nothing else having
\* been freed since it was made.
C5_Witness ==
    /\ lastOp.op = "dealloc" /\ ~lastOp.dbl /\ lastOp.by = "alloc" /\ lastOp.clean
    /\ lastOp.after >= 1
    /\ lastOp.ptr < live[1].p

\* C6: a dealloc of a pointer whose block header already has its free flag
\* set changes nothing: memory (so the list, the sizes and the flags) and
\* the list head are what they were.
C6_DoubleFreeNoOp ==
    [][(lastOp'.op = "dealloc" /\ lastOp'.dbl) => (mem' = mem /\ head' = head)]_vars

\* A pointer was just freed a second time whose block had been merged into
\* a neighbour: its header is no longer a block of the list.
C6_Witness ==
    /\ lastOp.op = "dealloc" /\ lastOp.dbl
    /\ \A k \in 1..Len(Blocks) : Blocks[k] # BackPointer(mem, lastOp.ptr)

\* allocator.rs:267  the size alloc and realloc ask alloc_raw for
RawRequest(n, a) == RoundUp(n + ExtraAlloc(a))

\* C7: when first-fit finds no free block large enough, alloc returns null
\* and realloc returns null, and the call leaves the heap as it was: the
\* same memory, the same live allocations (the old one of realloc among
\* them) with the same contents.
C7_OutOfMemory ==
    [][(/\ lastOp'.op \in {"alloc", "realloc"}
        /\ FirstFit(mem, head, RawRequest(lastOp'.n, lastOp'.a)) = NULL)
       => (/\ lastOp'.ret = NULL
           /\ mem' = mem /\ head' = head
           /\ live' = live
           /\ BlockView(mem', head') = BlockView(mem, head)
           /\ SameLiveContents(mem', mem))]_vars

\* A realloc of a written live allocation just failed, and the allocation
\* is still live.
C7_Witness ==
    /\ lastOp.op = "realloc" /\ lastOp.ret = NULL
    /\ lastOp.ptr \in LivePtrs
    /\ Written(mem, lastOp.ptr)
    /\ ~BlockFree(mem, BackPointer(mem, lastOp.ptr))

(***************************************************************************)
(*                   PROPERTIES OF THE FRAME ALLOCATOR                     *)
(***************************************************************************)

\* The frames returned so far, in order
Returned == SelectSeq(frames, LAMBDA f : f # None)

StrictlyIncreasing(s) == \A i, j \in 1..Len(s) : i < j => s[i] < s[j]

\* The conventional descriptors that hold a page appear in the map in
\* ascending address order.
ConventionalAscending(map) ==
    \A i, j \in 1..Len(map) :
        (/\ i < j
         /\ IsAllocatable(map[i]) /\ map[i].NumberOfPages > 0
         /\ IsAllocatable(map[j]) /\ map[j].NumberOfPages > 0)
        => map[i].PhysicalStart < map[j].PhysicalStart

\* C8 as stated: for any memory map the returned addresses are strictly
\* increasing.
C8_Original == StrictlyIncreasing(Returned)

\* C8 (amended): for any memory map whose conventional descriptors are
\* listed in ascending address order, the addresses returned by successive
\* allocate_frame() calls are strictly increasing.
C8_IncreasingOnAscendingMap ==
    ConventionalAscending(memory_map) => StrictlyIncreasing(Returned)

\* Frames of two conventional descriptors of an ascending map were returned.
C8_Witness ==
    /\ ConventionalAscending(memory_map)
    /\ Len(Returned) >= 3
    /\ current_descriptor_index >= 1

InsideConventional(f, d) ==
    /\ d.Type = EFI_CONVENTIONAL_MEMORY
    /\ d.PhysicalStart <= f
    /\ f < d.PhysicalStart + d.NumberOfPages * PAGE_SIZE
    /\ (f - d.PhysicalStart) % PAGE_SIZE = 0

\* C9: every returned address is a page of some conventional descriptor.
C9_FramesInsideConventional ==
    \A i \in 1..Len(Returned) :
        \E k \in 1..Len(memory_map) : InsideConventional(Returned[i], memory_map[k])

\* A frame was returned from a map whose first descriptor is not
\* conventional and holds pages.
C9_Witness ==
    /\ Len(Returned) >= 2
    /\ memory_map[1].Type # EFI_CONVENTIONAL_MEMORY
    /\ memory_map[1].NumberOfPages > 0

RECURSIVE SumPages(_, _)
SumPages(map, k) ==
    IF k = 0 THEN 0
    ELSE SumPages(map, k - 1)
         + (IF map[k].Type = EFI_CONVENTIONAL_MEMORY THEN map[k].NumberOfPages ELSE 0)

\* P: the pages of the conventional descriptors of the map
ConventionalPages == SumPages(memory_map, Len(memory_map))

\* C10: the first P calls each return a frame and call P+1 returns none.
C10_ExactlyPFrames ==
    \A i \in 1..Len(frames) :
        /\ i <= ConventionalPages => frames[i] # None
        /\ i = ConventionalPages + 1 => frames[i] = None

(***************************************************************************)
(*                        PROPERTIES OF PAGING                             *)
(***************************************************************************)

\* The 4-level walk of the MMU for a linear address: the leaf entry reached
\* from the table at `root`, 0 if an entry on the way is not present.
Translate(t, root, v) ==
    LET e4 == Entry(t, root, pml4_idx(v)) IN
    IF ~IsPresent(e4) THEN 0 ELSE
    LET e3 == Entry(t, TableAddress(e4), pdp_idx(v)) IN
    IF ~IsPresent(e3) THEN 0 ELSE
    LET e2 == Entry(t, TableAddress(e3), pd_idx(v)) IN
    IF ~IsPresent(e2) THEN 0 ELSE
    Entry(t, TableAddress(e2), pt_idx(v))

\* The number of tables missing on the walk for v (0..3).
MissingLevels(t, root, v) ==
    LET e4 == Entry(t, root, pml4_idx(v)) IN
    IF ~IsPresent(e4) THEN 3 ELSE
    LET e3 == Entry(t, TableAddress(e4), pdp_idx(v)) IN
    IF ~IsPresent(e3) THEN 2 ELSE
    LET e2 == Entry(t, TableAddress(e3), pd_idx(v)) IN
    IF ~IsPresent(e2) THEN 1 ELSE 0

PageOf(addr) == addr - (addr % PAGE_SIZE)

\* Every page of a descriptor's range, and every page the framebuffer touches.
PagesOfDescriptor(d) == {d.PhysicalStart + k * PAGE_SIZE : k \in 0..(d.NumberOfPages - 1)}
PagesOfFramebuffer(bi) ==
    IF bi.framebuffer_size = 0 THEN {}
    ELSE {PageOf(bi.framebuffer_base) + k * PAGE_SIZE :
            k \in 0..((PageOf(bi.framebuffer_base + bi.framebuffer_size - 1)
                        - PageOf(bi.framebuffer_base)) \div PAGE_SIZE)}

IdentityLeaf(t, root, p) ==
    LET leaf == Translate(t, root, p) IN
        /\ TableAddress(leaf) = p
        /\ BitAnd(leaf, 7) = 7

PresentEntries(f) == {k \in DOMAIN tables : k[1] = f /\ IsPresent(tables[k])}

\* C11: after init_paging has returned, every page of every descriptor whose
\* type is one of 1,2,3,4,5,6,7,9,10,11,12, and every page of the framebuffer
\* region, is reached by the 4-level walk from the PML4 in CR3 at a leaf
\* entry whose physical address is the page itself and whose flags include
\* P, W and U.
C11_IdentityMapped ==
    paging = "done" =>
        /\ \A i \in 1..Len(memory_map) :
              memory_map[i].Type \in {1, 2, 3, 4, 5, 6, 7, 9, 10, 11, 12} =>
                 \A p \in PagesOfDescriptor(memory_map[i]) : IdentityLeaf(tables, cr3, p)
        /\ \A p \in PagesOfFramebuffer(boot_info) : IdentityLeaf(tables, cr3, p)

C11_Witness ==
    /\ paging = "done"
    /\ Len(memory_map) = 2
    /\ \E i \in 1..2 : memory_map[i].Type = 11 /\ memory_map[i].NumberOfPages = 2
    /\ Cardinality(PagesOfFramebuffer(boot_info)) = 2
    /\ Cardinality(DOMAIN level) >= 6

\* C12: across the map_page calls, every present entry of a PML4, PDPT or PD
\* has P, W and U set; such an entry never changes once present; and a
\* map_page call allocates frames only for the tables missing on its walk.
C12_ParentEntriesStable ==
    [][ /\ \A k \in DOMAIN tables :
              (level[k[1]] >= 2 /\ IsPresent(tables[k])) =>
                  /\ BitAnd(tables[k], 7) = 7
                  /\ k \in DOMAIN tables'
                  /\ tables'[k] = tables[k]
        /\ (paging = "mapping" /\ work # <<>>) =>
              /\ Len(frames') - Len(frames) <= MissingLevels(tables, pml4_phys, Head(work))
              /\ paging' = "mapping" =>
                    Len(frames') - Len(frames) = MissingLevels(tables, pml4_phys, Head(work))
      ]_vars

C12_Witness ==
    /\ paging = "mapping"
    /\ \E f \in DOMAIN level : level[f] = 3 /\ Cardinality(PresentEntries(f)) >= 2
    /\ \E f \in DOMAIN level : level[f] = 2 /\ Cardinality(PresentEntries(f)) >= 2
    /\ \E f \in DOMAIN level : level[f] = 1 /\ Cardinality(PresentEntries(f)) >= 2

(***************************************************************************)
(*                   PROPERTIES OF THE PRODUCER RINGS                      *)
(***************************************************************************)

RingActive == ring.kind # "none"
Xor(a, b) == (a + b) % 2
\* The cycle bit stored in the ring's Link TRB (the slot after the usable ones).
LinkCycle == BoolBit(cycle_bit(trbs[ring.size]))

\* C13: on a ring of N-1 usable slots and a Link slot, created with cycle 1,
\* after k enqueue calls the enqueue index is k mod (N-1) and the cycle bit is
\* 1 XOR ((k div (N-1)) mod 2); the TRB an enqueue stores carries the cycle
\* that was current when the call was made.
C13_IndexAndCycle ==
    RingActive =>
        /\ ring.enqueue_index = enq % ring.size
        /\ BoolBit(ring.cycle_bit) = Xor(1, (enq \div ring.size) % 2)
        /\ enq > 0 =>
              /\ cycle_bit(lastWrite.trb) = lastWrite.cycle
              /\ lastWrite.slot = (enq - 1) % ring.size
              /\ (~lastWrite.wrapped) => trbs[lastWrite.slot] = lastWrite.trb

C13_Witness ==
    /\ RingActive
    /\ ring.size = 3
    /\ enq = 7
    /\ ring.enqueue_index = 1
    /\ ring.cycle_bit = TRUE
    /\ lastWrite.cycle = TRUE
    /\ lastWrite.trb.control = BitOr(TRB_NORMAL * TRB_TYPE_SHIFT, 33)

\* C14 as stated: after any number of enqueue calls the Link TRB's cycle bit
\* equals the ring's current cycle bit.
C14_Original ==
    RingActive => LinkCycle = BoolBit(ring.cycle_bit)

\* C14: after any number of enqueue calls (none included) the Link TRB's
\* cycle bit is the complement of the ring's current cycle bit: it is 0 in
\* the Link TRB written by new() while the ring starts at 1, and every wrap
\* stores the cycle in effect before the flip.
C14_LinkCycleIsComplement ==
    RingActive => LinkCycle = 1 - BoolBit(ring.cycle_bit)

C14_Witness ==
    /\ RingActive
    /\ enq > 2 * ring.size
    /\ ring.size >= 2
    /\ LinkCycle = 0
    /\ ring.cycle_bit = TRUE

\* C15: an enqueue that fills the last usable slot rewrites the Link TRB's
\* cycle bit to the cycle in effect before the flip, wraps the enqueue index
\* to 0 and complements the ring's cycle bit; on a ring of 4 slots, after 4
\* enqueues the index is 1, the cycle is flipped and the Link TRB carries the
\* cycle from before the flip.
C15_WrapRewritesLink ==
    [][ (RingActive /\ enq' = enq + 1) =>
          /\ ring.enqueue_index = ring.size - 1 =>
                /\ cycle_bit(trbs'[ring.size]) = ring.cycle_bit
                /\ trb_type(trbs'[ring.size]) = TRB_LINK
                /\ ring'.enqueue_index = 0
                /\ ring'.cycle_bit = ~ring.cycle_bit
          /\ ring.enqueue_index # ring.size - 1 =>
                /\ trbs'[ring.size] = trbs[ring.size]
                /\ ring'.cycle_bit = ring.cycle_bit
          /\ (ring.size = 3 /\ enq' = 4) =>
                /\ ring'.enqueue_index = 1
                /\ ring'.cycle_bit = FALSE
                /\ cycle_bit(trbs'[ring.size]) = TRUE
      ]_vars

C15_Witness ==
    /\ RingActive
    /\ ring.kind = "command"
    /\ ring.size = 3
    /\ enq = 4
    /\ ring.enqueue_index = 1

(***************************************************************************)
(*        PROPERTIES OF THE EVENT RING, THE KEYBOARD AND THE KEYS          *)
(***************************************************************************)

\* The code-point of a keycode: the table entry, 0 beyond the table.
translate(k) == IF k < HID_TABLE_LEN THEN HID_ASCII_TABLE[k] ELSE 0

\* C16: process_events handles only event TRBs whose cycle bit equals the
\* expected cycle at that moment, in ring order from the dequeue pointer,
\* and stops at the first TRB that differs; the expected cycle flips exactly
\* when the dequeue pointer goes from slot 255 (the last of 256) to slot 0.
C16_ConsumesOnlyOwnedTrbs ==
    [][ kbdOp' = "process" =>
          LET first == EventIndex(erdp - (erdp % 16))
              n == Len(handled')
              last == EventIndex(erdp' - (erdp' % 16))
          IN /\ \A i \in 1..n :
                   /\ handled'[i].cycle = handled'[i].expected
                   /\ handled'[i].slot = (first + i - 1) % 256
                   /\ cycle_bit(er[handled'[i].slot]) = handled'[i].expected
                   /\ handled'[i].expected =
                         (IF first + i - 1 >= 256 THEN ~event_ring_cycle_bit
                          ELSE event_ring_cycle_bit)
             /\ last = (first + n) % 256
             /\ cycle_bit(er[last]) # event_ring_cycle_bit'
             /\ (event_ring_cycle_bit' # event_ring_cycle_bit) <=> (first + n >= 256)
      ]_vars

C16_Witness ==
    /\ kbdOp = "process"
    /\ Len(handled) = 3
    /\ handled[1].slot = 254
    /\ handled[2].slot = 255
    /\ handled[3].slot = 0
    /\ handled[3].expected = FALSE
    /\ event_ring_cycle_bit = FALSE
    /\ lastReport.valid

PushedSet(rep) == {rep.log[i].key : i \in {j \in 1..Len(rep.log) : rep.log[j].stored}}
NewKeyCodePoints(rep) ==
    {translate(k) : k \in {c \in {Byte(rep.report, i) : i \in 2..7} :
                             /\ c # 0
                             /\ c \notin {Byte(rep.prev, i) : i \in 2..7}
                             /\ translate(c) # 0}}

\* C17 as stated: whenever the key buffer is not full when a report R' is
\* processed after R, the set of code-points pushed is
\* {translate(k) : k in R'[2..8], k # 0, k not in R[2..8], translate(k) # 0}
\* and the stored previous report becomes R'.
C17_Original ==
    (lastReport.valid /\ lastReport.free >= 1) =>
        /\ PushedSet(lastReport) = NewKeyCodePoints(lastReport)
        /\ prev_report = lastReport.report

\* C17: whenever the key buffer has a free slot for every key newly pressed
\* in a report R' processed after R, the set of code-points pushed is
\* {translate(k) : k in R'[2..8], k # 0, k not in R[2..8], translate(k) # 0}
\* and the stored previous report becomes R'; R = [0,0,4,0,0,0,0,0] and
\* R' = [0,0,4,5,0,0,0,0] push exactly 0x62.
C17_PressEdges ==
    (lastReport.valid /\ lastReport.free >= Len(lastReport.log)) =>
        /\ PushedSet(lastReport) = NewKeyCodePoints(lastReport)
        /\ prev_report = lastReport.report
        /\ (lastReport.prev = Report(4, 0, 0) /\ lastReport.report = Report(4, 5, 0)) =>
              lastReport.log = <<[key |-> 98, stored |-> TRUE]>>

C17_Witness ==
    /\ lastReport.valid
    /\ lastReport.prev = Report(4, 0, 0)
    /\ lastReport.report = Report(4, 5, 0)
    /\ lastReport.free >= 1
    /\ PushedSet(lastReport) = {98}
    /\ prev_report = Report(4, 5, 0)

PushedAgainOnlyAfterRelease ==
    lastReport.valid =>
        \A k \in TrackedKeys :
            (\E i \in 1..Len(lastReport.log) : lastReport.log[i].key = translate(k))
                => ~InReport(lastReport.prev, k)

\* C18 as stated: a keycode present in every report since its first
\* appearance has had its code-point pushed to the key buffer exactly once,
\* and a code-point is pushed only when the previous report lacks the key.
C18_Original ==
    /\ \A k \in TrackedKeys : runs[k].active => runs[k].count = 1
    /\ PushedAgainOnlyAfterRelease

\* C18: a keycode present in every report since its first appearance, listed
\* once per report, and first reported when the key buffer had room for the
\* new keys of that report, has had its code-point pushed to the key buffer
\* exactly once; its code-point is pushed only by a report whose predecessor
\* does not contain the key.
C18_HeldKeyOnce ==
    /\ \A k \in TrackedKeys :
          (runs[k].active /\ runs[k].room /\ ~runs[k].dup) => runs[k].count = 1
    /\ PushedAgainOnlyAfterRelease

C18_Witness ==
    /\ counts.reports = 3
    /\ kbdOp = "process"
    /\ lastReport.valid
    /\ InReport(lastReport.prev, 4)
    /\ InReport(lastReport.report, 4)
    /\ lastReport.log = <<>>
    /\ runs[4].active /\ runs[4].room /\ ~runs[4].dup
    /\ runs[4].count = 1

\* The keys the buffer holds, oldest first.
BufferCount == (KBD_BUF_HEAD - KBD_BUF_TAIL) % KBD_BUF_SIZE
BufferContents ==
    [i \in 1..BufferCount |-> KEYBOARD_BUFFER[(KBD_BUF_TAIL + i - 1) % KBD_BUF_SIZE]]
Unread == [i \in 1..preload |-> 120] \o fifo

\* C19: read_key returns 0 exactly when no pushed key is unread and
\* otherwise removes and returns the oldest one, so the buffer always holds
\* exactly the keys stored and not yet read, in push order; it never holds
\* more than 255 keys, and a push is dropped exactly when 255 are held,
\* leaving them as they are.
C19_KeyBufferFifo ==
    (kbdOp # "idle") =>
        /\ BufferContents = Unread
        /\ Len(Unread) <= 255
        /\ \A i \in 1..Len(Unread) : Unread[i] # 0
        /\ lastRead.valid =>
              /\ (lastRead.ret = 0) <=> lastRead.empty
              /\ ~lastRead.empty => lastRead.ret = lastRead.oldest
        /\ lastReport.valid =>
              \A i \in 1..Len(lastReport.log) :
                  lastReport.log[i].stored <=> (i <= lastReport.free)

C19_Witness ==
    /\ lastReport.valid
    /\ lastReport.free = 1
    /\ Len(lastReport.log) = 2
    /\ lastReport.log[1].stored
    /\ ~lastReport.log[2].stored
    /\ lastRead.valid
    /\ lastRead.ret = 120
    /\ kbdOp = "read"
    /\ BufferCount = 254
    /\ fifo = <<97>>


(***************************************************************************)
(*                     PROPERTIES OF THE SCHEDULER                         *)
(***************************************************************************)
\* task i lies strictly between a and b in cyclic index order (a < i < b)
PassedOver(a, i, b) ==
    LET n == Len(tasks)
    IN  /\ i # a
        /\ ((i + n - a) % n) < ((b + n - a) % n)

\* C20: under any sequence of add_new_task, add_new_user_task, switch_task
\* and terminate_task calls, a task whose status is Terminated keeps that
\* status (and its place and id) in every later state and is never made
\* the current task by a later call; the caller of terminate_task is
\* Terminated when the call is over.
C20_TerminatedIsFinal ==
    [][ /\ \A i \in 1..Len(tasks) :
             tasks[i].status = "Terminated" =>
                /\ Len(tasks') >= i
                /\ tasks'[i].status = "Terminated"
                /\ tasks'[i].id = tasks[i].id
                /\ (current_task_index' = i - 1 => current_task_index = i - 1)
        /\ lastSched'.op = "terminate_task" =>
             tasks'[lastSched'.from + 1].status = "Terminated"
      ]_vars

\* C20 witness: a switch_task call went from one task to another and passed
\* over a Terminated task on its way, with another Terminated task besides.
C20_Witness ==
    /\ lastSched.op = "switch_task"
    /\ lastSched.from # lastSched.to
    /\ \E i, j \in 0..(Len(tasks) - 1) :
         /\ i # j
         /\ tasks[i + 1].status = "Terminated"
         /\ tasks[j + 1].status = "Terminated"
         /\ PassedOver(lastSched.from, i, lastSched.to)

\* the task with id `id` exists and has status `status`
HasStatus(id, status) ==
    \E i \in 1..Len(tasks) : tasks[i].id = id /\ tasks[i].status = status

\* tasks A (id 1) and B (id 2) are the only tasks besides the bootstrap task
\* 0, and both are alive: one is Running, the other Ready
TasksAB ==
    /\ Len(tasks) = 3
    /\ ~HasStatus(1, "Terminated")
    /\ ~HasStatus(2, "Terminated")

\* the switch_task calls of A and of B in the history hand over to the other
Alternates ==
    \A k \in 1..Len(yields) :
        yields[k].by \in {1, 2} => yields[k].now = 3 - yields[k].by

\* C21 as stated: with tasks A (id 1) and B (id 2) yielding in a loop, each
\* yield of A makes B current and each yield of B makes A current, whatever
\* the bootstrap task 0 is doing.
C21_Original == TasksAB => Alternates

\* C21: with the bootstrap task 0 Terminated and tasks A (id 1) and B (id 2)
\* yielding in a loop from A Running and B Ready, the callers of successive
\* switch_task calls are A, B, A, B, ... (the output is ABAB...) and
\* current_task_id() after them is 2, 1, 2, 1, ...: the running task
\* alternates 1, 2, 1, 2.
C21_AlternatesWithoutMain ==
    (TasksAB /\ HasStatus(0, "Terminated")) => Alternates

\* C21 witness: task 0 is Terminated and the last four calls were yields of
\* A, B, A, B.
C21_Witness ==
    /\ TasksAB
    /\ HasStatus(0, "Terminated")
    /\ Len(yields) = 4
    /\ yields[1].by = 1 /\ yields[2].by = 2 /\ yields[3].by = 1 /\ yields[4].by = 2
    /\ yields[4].now = 1

\* the Ready tasks of a task list, as 0-based indices
ReadyIndices(ts) == {i \in 0..(Len(ts) - 1) : ts[i + 1].status = "Ready"}

\* the distance from the entry after `current` to entry i, going up and
\* around
CyclicDistance(ts, current, i) == (i + Len(ts) - (current + 1)) % Len(ts)

\* the first Ready task in cyclic index order starting at (current + 1) mod N
FirstReady(ts, current) ==
    CHOOSE i \in ReadyIndices(ts) :
        \A j \in ReadyIndices(ts) :
            CyclicDistance(ts, current, i) <= CyclicDistance(ts, current, j)

\* C26: when a switch_task call (made directly or by terminate_task) changes
\* the current task, the new current task is the first task that was Ready
\* in cyclic index order from (current + 1) mod N, it is Running afterwards,
\* the previous task is Ready if it called switch_task (it was Running) and
\* Terminated if it called terminate_task, and no other task changes.
C26_RoundRobinSelection ==
    [][ (current_task_index' # current_task_index) =>
          LET old == current_task_index
              new == current_task_index'
          IN  /\ lastSched'.op \in {"switch_task", "terminate_task"}
              /\ ReadyIndices(tasks) # {}
              /\ new = FirstReady(tasks, old)
              /\ tasks'[new + 1].status = "Running"
              /\ tasks[old + 1].status = "Running"
              /\ tasks'[old + 1].status =
                    IF lastSched'.op = "switch_task" THEN "Ready" ELSE "Terminated"
              /\ Len(tasks') = Len(tasks)
              /\ \A i \in 0..(Len(tasks) - 1) :
                    i \notin {old, new} => tasks'[i + 1] = tasks[i + 1]
              /\ tasks'[new + 1].id = tasks[new + 1].id
              /\ tasks'[old + 1].id = tasks[old + 1].id
      ]_vars

\* C26 witness: a switch_task call from the last entry wrapped around to a
\* Ready task that is not the first entry, with another Ready task further
\* on, and left its caller Ready.
C26_Witness ==
    /\ lastSched.op = "switch_task"
    /\ lastSched.to < lastSched.from
    /\ lastSched.to > 0
    /\ tasks[lastSched.from + 1].status = "Ready"
    /\ tasks[lastSched.to + 1].status = "Running"
    /\ \E i \in 0..(Len(tasks) - 1) :
         /\ tasks[i + 1].status = "Ready"
         /\ lastSched.to < i /\ i < lastSched.from

\* C27: when switch_task finds no Ready task, a caller that is Terminated
\* (the call came from terminate_task) ends in the hlt loop, with the current
\* index and every other task as they were, and nothing changes after that;
\* any other caller returns with the task list, the current index and the
\* next task id unchanged and goes on running.
C27_NoReadyTask ==
    [][ /\ (ReadyIndices(tasks) = {} /\ lastSched'.op = "terminate_task" /\ ~halted) =>
              /\ halted'
              /\ current_task_index' = current_task_index
              /\ tasks' = [tasks EXCEPT ![current_task_index + 1].status = "Terminated"]
        /\ (ReadyIndices(tasks) = {} /\ lastSched'.op = "switch_task" /\ ~halted) =>
              /\ ~halted'
              /\ tasks' = tasks
              /\ current_task_index' = current_task_index
              /\ tasks'[current_task_index' + 1].status = "Running"
        /\ halted => UNCHANGED <<tasks, current_task_index, NEXT_TASK_ID, halted>>
        /\ halted' => tasks'[current_task_index' + 1].status = "Terminated"
                      /\ ReadyIndices(tasks') = {}
      ]_vars

\* C27 witness: the last of several tasks called terminate_task with every
\* other task Terminated, and the scheduler is in its hlt loop.
C27_Witness ==
    /\ halted
    /\ Len(tasks) >= 3
    /\ lastSched.op = "terminate_task"
    /\ lastSched.from = lastSched.to
    /\ lastSched.from > 0

\* C28: at most one task has status Running, and a Running task is the one
\* at current_task_index.
C28_OneRunning ==
    \A i \in 0..(Len(tasks) - 1) :
        tasks[i + 1].status = "Running" => i = current_task_index

\* C28 witness: after a switch among four tasks the one Running task is the
\* current one, not the bootstrap task, and the others are Ready or
\* Terminated.
C28_Witness ==
    /\ Len(tasks) = 4
    /\ lastSched.op = "switch_task"
    /\ lastSched.from # lastSched.to
    /\ current_task_index > 0
    /\ tasks[current_task_index + 1].status = "Running"
    /\ \E i, j \in 0..3 : /\ tasks[i + 1].status = "Ready"
                          /\ tasks[j + 1].status = "Terminated"

\* C29: if the running task always eventually calls switch_task or
\* terminate_task, every task that is Ready is eventually Running, however
\* many of the MaxTasks tasks are added or have terminated meanwhile.
C29_NoStarvation ==
    \A id \in 0..(MaxTasks - 1) :
        HasStatus(id, "Ready") ~> HasStatus(id, "Running")

\* C29 witness: task 1 yielded, the two tasks after it ran in turn while a
\* fourth task was Terminated, and task 1 is Running again.
C29_Witness ==
    /\ Len(tasks) = 4
    /\ Len(yields) >= 3
    /\ yields[Len(yields) - 2].by = 1
    /\ yields[Len(yields)].now = 1
    /\ HasStatus(1, "Running")
    /\ \E i \in 1..4 : tasks[i].status = "Terminated"

(***************************************************************************)
(*                 PROPERTIES OF THE SYSCALL DISPATCHER                    *)
(***************************************************************************)
\* C22: a syscall with an id outside the wire table 1..13 returns ~0 and
\* leaves the heap, the scheduler, the driver and the power state as they
\* were.
C22_UnknownIds ==
    [][ (syscalls' # syscalls /\ sys'.id \notin 1..13) =>
            /\ sys'.ret = USIZE_MAX
            /\ sys'.call = "unknown"
            /\ UNCHANGED <<heapVars, schedVars, kbdVars, ringVars, powered>>
      ]_vars

\* C22 witness: with an allocation live and a second task added, a syscall
\* with id 14 returned ~0.
C22_Witness ==
    /\ sys.id = 14
    /\ sys.ret = USIZE_MAX
    /\ live # <<>>
    /\ Len(tasks) = 2

\* C23: syscall 12 (clear_screen) returns 0, and syscall 13 (realloc)
\* returns 0 or a pointer to a live block, never ~0.
C23_WireTableServiced ==
    /\ sys.id = 12 => sys.ret = 0
    /\ sys.id = 13 => /\ sys.ret # USIZE_MAX
                      /\ sys.ret = 0 \/ sys.ret \in LivePtrs

\* C24: syscall 2 with arguments (size, align) returns 0 or a pointer that
\* is a multiple of align.
C24_Ring3AllocAligned ==
    (sys.id = 2 /\ sys.ret # 0) => sys.ret % sys.arg2 = 0

(***************************************************************************)
(*                       PROPERTIES OF USER TASKS                          *)
(***************************************************************************)
\* C25: whenever a task executes in user mode, TSS.rsp0 holds a non-zero
\* kernel stack address (set_tss_stack was called before the IRETQ).
C25_Rsp0SetBeforeUserMode ==
    \A i \in 1..Len(pos) : pos[i] = "user" => tss_rsp0 # 0

\* the record of the task with index i (0 for a kernel thread)
RecordOf(i) == tasks[i + 1].gs_base

\* C30: every syscall entry finds GS at a KernelGsBase record; the user stack
\* pointer a syscall return restores from GS:[8] is the value the returning
\* task spilled at its own latest syscall entry; and a
\* step changes the user_stack field of a task's KernelGsBase record only if
\* that task was running in user mode and entered a syscall in the step.
C30_OwnStackPointerRestored ==
    [][ /\ \A i \in 1..Len(pos') : pos'[i] # "fault"
        /\ lastReturn'.valid =>
              \E i \in 1..Len(tasks') :
                  /\ tasks'[i].id = lastReturn'.id
                  /\ lastReturn'.rsp = spilled'[i]
        /\ \A i \in 0..(Len(tasks) - 1) :
              (/\ RecordOf(i) \in DOMAIN kgs
               /\ kgs'[RecordOf(i)].user_stack # kgs[RecordOf(i)].user_stack) =>
                  /\ i = current_task_index
                  /\ pos[i + 1] = "user"
                  /\ kgs'[RecordOf(i)].user_stack = spilled'[i + 1]
                  /\ spilled'[i + 1] \in UserRsps(tasks[i + 1].id)
      ]_vars

\* C30 witness: three user tasks have each entered a syscall with their own
\* stack pointer, and the one that yielded first has just returned from its
\* syscall after the other two ran.
C30_Witness ==
    /\ lastReturn.valid
    /\ Len(tasks) = 4
    /\ \A i \in 2..4 : tasks[i].gs_base # 0 /\ spilled[i] \in UserRsps(tasks[i].id)
    /\ lastSched.op = "switch_task"
    /\ lastSched.from # lastSched.to
    /\ lastReturn.id = tasks[lastSched.to + 1].id
    /\ lastReturn.rsp = spilled[lastSched.to + 1]

(***************************************************************************)
(*              PROPERTIES OF THE STACK OF A NEW USER TASK                 *)
(***************************************************************************)

\* C31: when the first switch into a task made by add_user_task(entry,
\* user_stack_bottom, stack_size) reaches the ret of context_switch, the six
\* callee-saved registers rbp, rbx, r12..r15 have been popped as zero, control
\* is at user_task_trampoline, and RSP points at an IRETQ frame with
\* RIP = entry, CS = 0x23, RFLAGS = 0x202, RSP = user_stack_bottom +
\* stack_size and SS = 0x1B; the iretq of the trampoline loads exactly these.
C31_FirstSwitchFrame ==
    /\ stage = "trampoline" =>
          /\ regs.rbp = 0 /\ regs.rbx = 0 /\ regs.r12 = 0
          /\ regs.r13 = 0 /\ regs.r14 = 0 /\ regs.r15 = 0
          /\ regs.rip = TRAMPOLINE
          /\ regs.rsp = newtask.kernel_stack_bottom + newtask.stack_size - 40
          /\ kstack[regs.rsp] = newtask.entry_point
          /\ kstack[regs.rsp + 8] = 35
          /\ kstack[regs.rsp + 16] = 514
          /\ kstack[regs.rsp + 24] = newtask.user_stack_bottom + newtask.stack_size
          /\ kstack[regs.rsp + 32] = 27
    /\ stage = "user" =>
          /\ regs.rip = newtask.entry_point
          /\ regs.cs = 35
          /\ regs.rflags = 514
          /\ regs.rsp = newtask.user_stack_bottom + newtask.stack_size
          /\ regs.ss = 27

C31_Witness ==
    /\ stage = "trampoline"
    /\ newtask.stack_size = 16384
    /\ newtask.entry_point = 4198400
    /\ regs.rip = TRAMPOLINE
    /\ regs.r15 = 0
    /\ kstack[regs.rsp] = 4198400

(***************************************************************************)
(*              FIRST FIT AND DISJOINT ALLOCATIONS (C32, C33)              *)
(***************************************************************************)

BlockSet(m, hd) == {BlockList(m, hd)[i] : i \in 1..Len(BlockList(m, hd))}

\* the free blocks that can hold `size` bytes
Candidates(m, hd, size) ==
    {b \in BlockSet(m, hd) : BlockFree(m, b) /\ BlockSize(m, b) >= size}

Lowest(S) == CHOOSE b \in S : \A c \in S : b <= c

\* C32: alloc_raw is first-fit.  An alloc whose 8-byte-rounded request is s
\* returns null when no free block has size >= s; otherwise it takes the
\* lowest-addressed such block b.  If b.size >= s + header_size + 16 the block
\* is split: b gets size s and is followed directly by a free block of size
\* b.size - s - header_size at b + header_size + s; otherwise b is handed out
\* whole, with its size and its successor unchanged.
C32_FirstFitSplit ==
    [][lastOp'.op = "alloc" =>
         LET s == RawRequest(lastOp'.n, lastOp'.a)
             C == Candidates(mem, head, s)
         IN  IF C = {} THEN lastOp'.ret = NULL
             ELSE LET b == Lowest(C)
                      rest == b + HEAP_BLOCK_SIZE + s
                  IN  /\ lastOp'.ret # NULL
                      /\ BackPointer(mem', lastOp'.ret) = b
                      /\ ~BlockFree(mem', b)
                      /\ IF BlockSize(mem, b) >= s + 32 + 16
                         THEN /\ BlockSize(mem', b) = s
                              /\ BlockNext(mem', b) = rest
                              /\ BlockFree(mem', rest)
                              /\ BlockSize(mem', rest) = BlockSize(mem, b) - s - 32
                              /\ BlockNext(mem', rest) = BlockNext(mem, b)
                         ELSE /\ BlockSize(mem', b) = BlockSize(mem, b)
                              /\ BlockNext(mem', b) = BlockNext(mem, b)]_vars

\* An alloc skipped a free block that was too small and was handed a whole
\* block larger than its request.
C32_Witness ==
    /\ lastOp.op = "alloc" /\ lastOp.ret # NULL
    /\ LET b == BackPointer(mem, lastOp.ret) IN
        /\ BlockSize(mem, b) > RawRequest(lastOp.n, lastOp.a)
        /\ \E c \in BlockSet(mem, head) : c < b /\ BlockFree(mem, c)

\* the bytes [a, a + n)
Range(a, n) == [lo |-> a, hi |-> a + n]
Disjoint(r1, r2) == r1.hi <= r2.lo \/ r2.hi <= r1.lo

LiveRange(i) == Range(live[i].p, live[i].n)

\* C33: at every point of a sequence of successful alloc, realloc and dealloc
\* calls, the byte ranges [p, p + n) of distinct live allocations are pairwise
\* disjoint, and no live allocation's range contains bytes of a heap-block
\* header or of the back-pointer word of another live allocation.
C33_LiveRangesDisjoint ==
    \A i \in 1..Len(live) :
        /\ \A j \in 1..Len(live) :
              j # i => /\ Disjoint(LiveRange(i), LiveRange(j))
                       /\ Disjoint(LiveRange(i), Range(live[j].p - WORD, WORD))
        /\ \A b \in BlockSet(mem, head) :
              Disjoint(LiveRange(i), Range(b, HEAP_BLOCK_SIZE))

\* Three allocations are live, one of them made by realloc, after a free.
C33_Witness ==
    /\ Len(live) = 3
    /\ \E i \in 1..3 : live[i].by = "realloc"
    /\ \E b \in BlockSet(mem, head) : BlockFree(mem, b)

(***************************************************************************)
(*                 THE KEYBOARD REQUEST IS RE-QUEUED (C36)                 *)
(***************************************************************************)

\* the event TRB in event-ring slot i is a Transfer Event of the keyboard's
\* interrupt-in ring that completed with Success or Short Packet
IsKeyboardData(i) ==
    /\ trb_type(er[i]) = TRB_TRANSFER_EVENT
    /\ is_keyboard_report(ring, slot_id(er[i]), er[i].param)
    /\ completion_code(er[i]) \in {1, 13}

\* C36: for every Transfer Event whose TRB pointer lies within the slot's
\* interrupt-in ring and whose completion code is Success (1) or Short Packet
\* (13), process_events processes the report and then enqueues exactly one
\* new request TRB on that ring, so a request is outstanding again after the
\* event.
C36_RequeueAfterReport ==
    [][kbdOp' = "process" =>
         \A k \in 1..Len(handled') :
             IsKeyboardData(handled'[k].slot) =>
                 /\ lastReport'.valid
                 /\ enq' = enq + 1
                 /\ RequestOutstanding']_vars

(***************************************************************************)
(* C34  When the wait loop of a command submission (Enable Slot, Address   *)
(* Device, Configure Endpoint) exits, a Command Completion Event for the   *)
(* submitted command has been consumed, and LAST_COMPLETION_CODE and       *)
(* LAST_SLOT_ID hold that event's values, whatever else the controller     *)
(* posted while the loop was spinning.                                     *)
(***************************************************************************)
C34_OwnCompletionConsumed ==
    \A k \in 1..Len(issued) :
        issued[k].step \in CommandSteps => issued[k].own /\ issued[k].same

(***************************************************************************)
(* C35  The steps of the enumeration of a slot are issued in the order     *)
(* Enable Slot, Address Device, Get Descriptor (Device), Get Descriptor    *)
(* (Configuration: header, then full), Set Configuration, Set Idle, Set    *)
(* Protocol, Configure Endpoint, first HID report request; and after a     *)
(* step that ended with a non-success code or timed out (code 0), no      *)
(* later step is issued.                                                   *)
(***************************************************************************)
EnumOrder == <<"enable_slot", "address_device", "get_device_descriptor",
               "get_config_header", "get_config_full", "set_configuration",
               "set_idle", "set_protocol", "configure_endpoint", "report_request">>

\* the steps issued so far: those whose wait is over, and the one waiting
Started ==
    [k \in 1..Len(issued) |-> issued[k].step]
        \o (IF enum.phase \in {"wait", "timeout"} THEN <<enum.next>> ELSE <<>>)

C35_OrderAndAbort ==
    /\ Len(Started) <= Len(EnumOrder)
    /\ \A k \in 1..Len(Started) : Started[k] = EnumOrder[k]
    /\ \A k \in 1..Len(Started) :
          k > 1 => issued[k - 1].code = COMPLETION_SUCCESS

(***************************************************************************)
(* C37  control_transfer always terminates: its wait loop runs at most     *)
(* SPIN_LIMIT + 1 iterations, and when no event set the completion code    *)
(* while it waited, it leaves the loop by the timeout with                 *)
(* LAST_COMPLETION_CODE = 0 and with the TRBs it enqueued on the EP0 ring  *)
(* as it wrote them.                                                       *)
(***************************************************************************)
InControlTransfer == enum.next \in ControlSteps /\ enum.phase \in {"wait", "timeout"}

\* the TRBs of the current control transfer are in the EP0 ring as enqueued
Ep0TrbsKept ==
    \A i \in 1..enum.count :
        ep0.trbs[enum.first + i - 1] =
            [ControlTrbs(enum.next)[i] EXCEPT !.control = SetCycle(@, TRUE)]

C37_ControlTransferTimeout ==
    InControlTransfer =>
        /\ enum.timeout <= SPIN_LIMIT + 1
        /\ enum.phase = "wait" => enum.timeout <= SPIN_LIMIT
        /\ enum.count = Len(ControlTrbs(enum.next))
        /\ (enum.phase = "timeout" /\ ~enum.set) =>
              /\ enum.timeout = SPIN_LIMIT + 1
              /\ LAST_COMPLETION_CODE = 0
              /\ Ep0TrbsKept
              /\ ep0.ring.enqueue_index = enum.first + enum.count

C37_Witness ==
    /\ enum.next = "get_config_full"
    /\ enum.phase = "timeout"
    /\ ~enum.set
    /\ enum.first = 6

(***************************************************************************)
(* C38  Every index used on a per-slot table (64 entries each) is          *)
(* slot_id - 1 with 1 <= slot_id <= 64, for every slot id the controller   *)
(* may report when MaxSlotsEn is programmed from HCSPARAMS1.               *)
(***************************************************************************)
C38_SlotIndexInTable == \A i \in indexed : 0 <= i /\ i < SLOT_TABLE_LEN

(***************************************************************************)
(* C39  nvme_wait_for_completion consumes a completion entry only when     *)
(* bit 0 of its status equals the expected phase; a consumed entry moves   *)
(* head on by one, back to 0 at size, the expected phase flips exactly on  *)
(* that wrap, the head doorbell is written with the new head after each    *)
(* consumed entry, and the function returns only after consuming the       *)
(* entry with the awaited command id.                                      *)
(***************************************************************************)
HeadEntry == ncq[nvq.head]
PhaseMatches == (HeadEntry.status % 2) = nvq.phase
AtQueueEnd == nvq.head + 1 = nvq.size

C39_ConsumeOnPhase ==
    [][/\ (nvq' # nvq \/ ndb' # ndb) => (nwait'.iter # nwait.iter /\ PhaseMatches)
       /\ (nwait'.iter # nwait.iter /\ PhaseMatches) =>
             /\ nvq'.head = IF AtQueueEnd THEN 0 ELSE nvq.head + 1
             /\ nvq'.phase = IF AtQueueEnd THEN 1 - nvq.phase ELSE nvq.phase
             /\ nvq'.size = nvq.size
             /\ ndb' = Append(ndb, nvq'.head)
             /\ (nwait'.pc = "idle") = (HeadEntry.command_id = nwait.cid)
       /\ (nwait.pc = "loop" /\ nwait'.pc = "idle") =>
             PhaseMatches /\ HeadEntry.command_id = nwait.cid]_vars

\* a wait returned after it consumed the last two entries of the first lap,
\* one of another command and then its own: head wrapped and the phase flipped
C39_Witness ==
    /\ nwait.pc = "idle"
    /\ nwait.calls = 1
    /\ nctl.start = NVME_QUEUE_SIZE - 2
    /\ ndb = <<NVME_QUEUE_SIZE - 1, 0>>
    /\ nvq.head = 0
    /\ nvq.phase = 0
    /\ ncq[NVME_QUEUE_SIZE - 2].command_id # nwait.cid
    /\ ncq[NVME_QUEUE_SIZE - 1].command_id = nwait.cid

(***************************************************************************)
(* C40  With the keyboard interrupt (push_key) able to run between any two *)
(* memory accesses of pop_key: every key pop_key returns was pushed        *)
(* earlier, the keys are returned in push order, no stored key is returned *)
(* twice or lost (pop_key returns None only when every stored key has been *)
(* returned), and push_key drops a key only when it finds the ring full    *)
(* (BUFFER_SIZE - 1 keys held: one slot of the 256 stays empty).           *)
(***************************************************************************)
IsPrefix(a, b) == Len(a) <= Len(b) /\ \A k \in 1..Len(a) : a[k] = b[k]

\* pop_key returns None in this step
PopReturnsNone == popper.pc = "read_w" /\ popper'.pc = "idle"

C40_KeysInPushOrder ==
    [][/\ IsPrefix(keysPopped', keysStored')
       /\ PopReturnsNone => keysPopped = keysStored
       /\ \A k \in 1..Len(keysDropped') : keysDropped'[k].held = BUFFER_SIZE - 1
       /\ ps2'.asked = (Len(keysStored') - ps2'.fill) + Len(keysDropped')]_vars

\* pop_key has stored READ_IDX and not yet loaded its key; since it read
\* WRITE_IDX the interrupt has stored one key in the slot that came free and
\* dropped another on the full ring
C40_Witness ==
    /\ popper.pc = "load"
    /\ ps2.order = "store_load"
    /\ popper.w # WRITE_IDX
    /\ WRITE_IDX = popper.r
    /\ keysDropped # <<>>

=============================================================================
